---- MODULE Spec2Model ----
(***************************************************************************)
(* StationIapetus: player controller, weapon cooldown and hit-scan          *)
(* resolution (game/src/weapon/mod.rs, game/src/player/mod.rs).             *)
(*                                                                          *)
(* Handles are naturals, 0 is Handle::NONE.  Vectors that the code only     *)
(* copies (position, normal, feature of an intersection) are opaque         *)
(* naturals.                                                                *)
(***************************************************************************)
EXTENDS Integers, Sequences, FiniteSets, TLC

VARIABLES
    ray_args,           \* arguments of the ray_hit call under examination
    ray_result,         \* what that call produced ("pending" before the call)
    weapons,            \* WeaponContainer: the pool of Weapon
    elapsed,            \* GameTime::elapsed, in hundredths of a second
    outbox,             \* messages sent through the MessageSender by the last operation
    can_shoot_result,   \* value of the last Weapon::can_shoot call, if it was the last operation
    shot_log,           \* history: per weapon, the time of its latest Weapon::shoot call (-1: none)
    player,             \* the Player and its Character
    events,             \* per clip, the queue of animation events not yet popped
    upper_active_state, \* active state of the upper body machine at the last update
    pre,                \* history: player and events before the last operation
    op,                 \* history: the last operation
    tally,              \* history: grenades removed and grenade projectiles sent so far
    container,          \* WeaponContainer as a pool of generational records
    issued,             \* history: the handles WeaponContainer::add returned
    trails,             \* ShotTrailContainer::container
    trail_log,          \* history: per trail, dt accumulated and scene node removals
    model_angle,        \* value of the last calculate_model_angle call
    level,              \* items and elevators of the level, by distance from the player
    frame               \* history: what the last Player::update found and fed its machines

ray_vars == <<ray_args, ray_result>>
ext_vars == <<container, issued, trails, trail_log, model_angle, level, frame>>
vars == <<ray_args, ray_result, weapons, elapsed, outbox, can_shoot_result, shot_log,
          player, events, upper_active_state, pre, op, tally,
          container, issued, trails, trail_log, model_angle, level, frame>>

NONE == 0

(***************************************************************************)
(* Bounds of the hit-scan model.                                            *)
(***************************************************************************)
MaxBuf == 2             \* longest query_buffer returned by cast_ray
ActorHandles == 1 .. 2  \* actors alive in the ActorContainer
Colliders == 1 .. 3     \* collider nodes of the scene
WeaponHandles == 1 .. 2 \* slots of the weapon pool

(***************************************************************************)
(* Shooter (weapon/projectile.rs, used at weapon/mod.rs:142-146).           *)
(***************************************************************************)
Shooters ==
    {[tag |-> "None", handle |-> NONE], [tag |-> "Turret", handle |-> 1]}
    \cup {[tag |-> "Actor", handle |-> a] : a \in ActorHandles}
    \cup {[tag |-> "Weapon", handle |-> w] : w \in WeaponHandles}

\* HitBox of an actor: the collider node and the bone it is attached to.
HitBox(c) == [collider |-> c, bone |-> c]

\* An intersection reported by cast_ray; position/normal/feature are opaque
\* and differ from one intersection to the next.
Intersection(c, i) ==
    [collider |-> c, position |-> i, normal |-> 10 + i, feature |-> 20 + i]

\* Result of cast_ray with sort_results: true -- intersections ordered by
\* distance from the ray origin (position i is the distance rank).
RECURSIVE BuffersOfLen(_)
BuffersOfLen(n) ==
    IF n = 0 THEN {<<>>}
    ELSE {Append(b, Intersection(c, n)) : b \in BuffersOfLen(n - 1), c \in Colliders}

QueryBuffers == UNION {BuffersOfLen(n) : n \in 0 .. MaxBuf}

\* The hit boxes of the actors: every collider node is a hit box of at most
\* one actor (hit boxes are collider nodes found below the actor's own pivot).
RECURSIVE BoxesFrom(_, _, _)
BoxesFrom(owner, a, c) ==
    IF c > Cardinality(Colliders) THEN <<>>
    ELSE IF owner[c] = a THEN <<HitBox(c)>> \o BoxesFrom(owner, a, c + 1)
    ELSE BoxesFrom(owner, a, c + 1)

ActorsOf(owner) == [a \in ActorHandles |-> [hit_boxes |-> BoxesFrom(owner, a, 1)]]

\* Weapon pool as ray_hit sees it: a slot is free, or holds a weapon with an
\* owner (possibly Handle::NONE).
FREE == [free |-> TRUE, kind |-> "M4", owner |-> NONE, last_shot_time |-> 0]
RayPools ==
    [WeaponHandles -> {FREE} \cup {[free |-> FALSE, kind |-> "M4", owner |-> o, last_shot_time |-> 0] :
                            o \in {NONE} \cup ActorHandles}]

(***************************************************************************)
(* ray_hit, weapon/mod.rs:104-184.                                          *)
(***************************************************************************)

\* The owner of the shot: weapons[weapon] panics on a freed slot.
who_no_owner_lookup(shooter, pool) ==
    CASE shooter.tag \in {"None", "Turret"} -> [panic |-> FALSE, who |-> NONE]
      [] shooter.tag = "Actor" -> [panic |-> FALSE, who |-> shooter.handle]
      [] shooter.tag = "Weapon" -> [panic |-> FALSE, who |-> NONE]

who_of(shooter, pool) ==
    CASE shooter.tag \in {"None", "Turret"} -> [panic |-> FALSE, who |-> NONE]
      [] shooter.tag = "Actor" -> [panic |-> FALSE, who |-> shooter.handle]
      [] shooter.tag = "Weapon" ->
            IF pool[shooter.handle].free THEN [panic |-> TRUE, who |-> NONE]
            ELSE [panic |-> FALSE, who |-> pool[shooter.handle].owner]

\* "Ignore intersections with owners": the test at weapon/mod.rs:149.
is_owner_never(who, actor_handle) == FALSE

is_owner(who, actor_handle) == who = actor_handle

NoBox == [none |-> TRUE]
SomeBox(b) == [none |-> FALSE, box |-> b]

\* The Hit built at weapon/mod.rs:153-162.
actor_hit_without_box(actor_handle, who, hit, hit_box, buf) ==
    [actor |-> actor_handle, who |-> who, position |-> hit.position,
     normal |-> hit.normal, collider |-> hit.collider, feature |-> hit.feature,
     hit_box |-> NoBox, query_buffer |-> buf]

actor_hit(actor_handle, who, hit, hit_box, buf) ==
    [actor |-> actor_handle, who |-> who, position |-> hit.position,
     normal |-> hit.normal, collider |-> hit.collider, feature |-> hit.feature,
     hit_box |-> SomeBox(hit_box), query_buffer |-> buf]

\* The Hit built at weapon/mod.rs:170-179.
environment_hit(hit, buf) ==
    [actor |-> NONE, who |-> NONE, position |-> hit.position, normal |-> hit.normal,
     collider |-> hit.collider, feature |-> hit.feature, hit_box |-> NoBox,
     query_buffer |-> buf]

\* After the actor loop, weapon/mod.rs:167-180.
after_loop_always_environment(is_hitbox_hit, hit, buf) ==
    [tag |-> "Some", value |-> environment_hit(hit, buf)]

after_loop_never_environment(is_hitbox_hit, hit, buf) == [tag |-> "None"]

after_loop(is_hitbox_hit, hit, buf) ==
    IF is_hitbox_hit THEN [tag |-> "None"]
    ELSE [tag |-> "Some", value |-> environment_hit(hit, buf)]

\* Inner loop over actor.hit_boxes: "skip" when no box matches, "continue"
\* for `continue 'actor_loop`, "return" for the early return, "panic".
RECURSIVE hit_box_loop(_, _, _, _, _, _)
hit_box_loop(boxes, actor_handle, hit, shooter, pool, buf) ==
    IF boxes = <<>> THEN [tag |-> "skip"]
    ELSE IF Head(boxes).collider = hit.collider
         THEN LET w == who_of(shooter, pool)
              IN  IF w.panic THEN [tag |-> "panic"]
                  ELSE IF is_owner(w.who, actor_handle) THEN [tag |-> "continue"]
                  ELSE [tag |-> "return",
                        value |-> actor_hit(actor_handle, w.who, hit, Head(boxes), buf)]
         ELSE hit_box_loop(Tail(boxes), actor_handle, hit, shooter, pool, buf)

\* Outer loop over actors.pair_iter(), in pool order.
RECURSIVE actor_loop(_, _, _, _, _, _, _)
actor_loop(h, actors, hit, shooter, pool, buf, is_hitbox_hit) ==
    IF h \notin DOMAIN actors
    THEN after_loop(is_hitbox_hit, hit, buf)
    ELSE LET r == hit_box_loop(actors[h].hit_boxes, h, hit, shooter, pool, buf)
         IN  CASE r.tag = "skip" ->
                    actor_loop(h + 1, actors, hit, shooter, pool, buf, is_hitbox_hit)
               [] r.tag = "continue" ->
                    actor_loop(h + 1, actors, hit, shooter, pool, buf, TRUE)
               [] r.tag = "panic" -> [tag |-> "Panic"]
               [] r.tag = "return" -> [tag |-> "Some", value |-> r.value]

\* Mutation of the search below: the ignored collider is not filtered out.
first_any(buf, ignored_collider) ==
    IF buf = <<>> THEN [found |-> FALSE] ELSE [found |-> TRUE, hit |-> Head(buf)]

\* query_buffer.iter().find(|i| i.collider != ignored_collider)
RECURSIVE find_not_ignored_rec(_, _)
find_not_ignored_rec(buf, ignored_collider) ==
    IF buf = <<>> THEN [found |-> FALSE]
    ELSE IF Head(buf).collider # ignored_collider
         THEN [found |-> TRUE, hit |-> Head(buf)]
         ELSE find_not_ignored_rec(Tail(buf), ignored_collider)

find_not_ignored(buf, ignored_collider) == find_not_ignored_rec(buf, ignored_collider)

ray_hit(shooter, pool, actors, buf, ignored_collider) ==
    LET f == find_not_ignored(buf, ignored_collider)
    IN  IF f.found
        THEN actor_loop(1, actors, f.hit, shooter, pool, buf, FALSE)
        ELSE [tag |-> "None"]

(***************************************************************************)
(* Weapon definitions (weapon/definition.rs, looked up by kind at           *)
(* weapon/mod.rs:206-208).  Times are in hundredths of a second.            *)
(***************************************************************************)
WeaponKinds == {"M4", "Glock", "PlasmaRifle"}

DEFINITIONS ==
    [k \in WeaponKinds |->
        CASE k = "M4" ->
                [shoot_interval |-> 10, ammo_consumption_per_shot |-> 2,
                 projectile |-> [tag |-> "Ray", damage |-> 15], shot_sounds |-> 1,
                 v_recoil |-> <<-1, 2>>, h_recoil |-> <<-1, 1>>]
          [] k = "Glock" ->
                [shoot_interval |-> 5, ammo_consumption_per_shot |-> 1,
                 projectile |-> [tag |-> "Ray", damage |-> 10], shot_sounds |-> 0,
                 v_recoil |-> <<0, 1>>, h_recoil |-> <<0, 0>>]
          [] k = "PlasmaRifle" ->
                [shoot_interval |-> 10, ammo_consumption_per_shot |-> 2,
                 projectile |-> [tag |-> "Projectile", kind |-> "Plasma"],
                 shot_sounds |-> 1,
                 v_recoil |-> <<-1, 2>>, h_recoil |-> <<-1, 1>>]]

definition(kind) == DEFINITIONS[kind]

(***************************************************************************)
(* Weapon, weapon/mod.rs:54-69 and 186-203.  The fields kept are those the  *)
(* cooldown, the ownership test and the messages depend on; scene nodes,    *)
(* muzzle flash and laser sight are visual.                                 *)
(***************************************************************************)
MaxTime == 12   \* GameTime::elapsed runs from 0 to MaxTime

\* Weapon::default / Weapon::new: last_shot_time: 0.0, owner: Handle::NONE.
new_weapon(kind) ==
    [free |-> FALSE, kind |-> kind, owner |-> NONE, last_shot_time |-> 0]

\* Weapon::can_shoot, weapon/mod.rs:369-371.
can_shoot_strict(weapon, time_elapsed) ==
    time_elapsed - weapon.last_shot_time > definition(weapon.kind).shoot_interval

can_shoot(weapon, time_elapsed) ==
    time_elapsed - weapon.last_shot_time >= definition(weapon.kind).shoot_interval

\* Vector3<f32> in fixed point: a coordinate counts tenths of a unit of
\* length, so that a vector of length 1 has the norm Unit.
Unit == 10

Vector3(x, y, z) == [x |-> x, y |-> y, z |-> z]

dot(a, b) == a.x * b.x + a.y * b.y + a.z * b.z

\* Vector3::norm; the vectors used have a whole norm.
norm(v) == CHOOSE n \in 0 .. dot(v, v) : n * n = dot(v, v)

\* Vector3::scale by the ratio num / den.
scale(v, num, den) ==
    Vector3((v.x * num) \div den, (v.y * num) \div den, (v.z * num) \div den)

\* Vector3::normalize of a vector that is not zero.
normalize(v) == scale(v, Unit, norm(v))

\* Vector3::try_normalize(f32::EPSILON): None for a vector no longer than
\* the threshold, which is far below one tenth.
try_normalize(v) ==
    IF norm(v) = 0 THEN [some |-> FALSE] ELSE [some |-> TRUE, value |-> normalize(v)]

\* The scene graph as Weapon::shoot reads it: the global position of the
\* shot point, if the weapon has one, and the global position and look
\* vector of the model.
\* A weapon without a shot point, its model at the origin looking along z.
AtRest ==
    [shot_point |-> [some |-> FALSE],
     model |-> [position |-> Vector3(0, 0, 0), look |-> Vector3(0, 0, Unit)]]

\* `direction: None`: the shot follows the look vector of the model.
LookAhead == [some |-> FALSE]

\* Weapon::shot_position, weapon/mod.rs:324-331.
shot_position(scene) ==
    IF scene.shot_point.some THEN scene.shot_point.position ELSE scene.model.position

\* Weapon::shot_direction, weapon/mod.rs:333-335.
shot_direction(scene) == normalize(scene.model.look)

\* The direction of the shot, weapon/mod.rs:426-429.
direction_as_given(direction, scene) ==
    IF direction.some THEN direction.value ELSE shot_direction(scene)

direction_of(direction, scene) ==
    LET n == try_normalize(IF direction.some THEN direction.value ELSE shot_direction(scene))
    IN  IF n.some THEN n.value ELSE Vector3(0, 0, Unit)

\* `direction.scale(1000.0)`
RayLength == 1000

add(a, b) == Vector3(a.x + b.x, a.y + b.y, a.z + b.z)

\* The messages of Weapon::shoot, weapon/mod.rs:386-398 and 431-448.
shoot_messages(weapon, self_handle, scene, direction) ==
    (IF definition(weapon.kind).shot_sounds > 0
     THEN <<[tag |-> "PlaySound"]>> ELSE <<>>)
    \o (IF definition(weapon.kind).projectile.tag = "Projectile"
        THEN <<[tag |-> "CreateProjectile",
                kind |-> definition(weapon.kind).projectile.kind,
                position |-> shot_position(scene),
                direction |-> direction_of(direction, scene),
                shooter |-> [tag |-> "Weapon", handle |-> self_handle]]>>
        ELSE <<[tag |-> "ShootRay",
                shooter |-> [tag |-> "Weapon", handle |-> self_handle],
                begin |-> shot_position(scene),
                end |-> add(shot_position(scene),
                            scale(direction_of(direction, scene), RayLength, 1)),
                damage |-> definition(weapon.kind).projectile.damage]>>)

\* Weapon::shoot, weapon/mod.rs:373-449: the weapon after the call.
shoot_without_stamp(weapon, time_elapsed) == weapon

shoot(weapon, time_elapsed) == [weapon EXCEPT !.last_shot_time = time_elapsed]

(***************************************************************************)
(* WeaponContainer, weapon/mod.rs:461-516, over fyrox's Pool: records with  *)
(* a generation and an optional payload, and a stack of free indices.  A    *)
(* handle is an index with the record's generation at spawn time.  A weapon *)
(* is named by its serial number.                                           *)
(***************************************************************************)
\* Pool::spawn: reuse the index on top of the free stack with the generation
\* raised by one, or push a new record of generation 1.
pool_spawn(c, weapon) ==
    IF c.free_stack # <<>>
    THEN LET i == c.free_stack[Len(c.free_stack)]
             g == c.records[i].generation + 1
         IN  [pool |-> [records |-> [c.records EXCEPT ![i] = [generation |-> g,
                                                             payload |-> weapon]],
                        free_stack |-> SubSeq(c.free_stack, 1, Len(c.free_stack) - 1)],
              handle |-> [index |-> i, generation |-> g]]
    ELSE [pool |-> [records |-> Append(c.records, [generation |-> 1, payload |-> weapon]),
                    free_stack |-> c.free_stack],
          handle |-> [index |-> Len(c.records) + 1, generation |-> 1]]

\* Pool::is_valid_handle.
is_valid_handle_any_generation(c, h) ==
    /\ h.index \in DOMAIN c.records
    /\ c.records[h.index].payload # NONE

is_valid_handle(c, h) ==
    /\ h.index \in DOMAIN c.records
    /\ c.records[h.index].generation = h.generation
    /\ c.records[h.index].payload # NONE

\* Pool::try_borrow: the payload, or NONE for Option::None.
try_borrow(c, h) ==
    IF is_valid_handle(c, h) THEN c.records[h.index].payload ELSE NONE

\* Pool::free of a valid handle: the payload is taken, the index is pushed on
\* the free stack.
pool_free(c, h) ==
    [records |-> [c.records EXCEPT ![h.index].payload = NONE],
     free_stack |-> Append(c.free_stack, h.index)]

\* WeaponContainer::add, try_get, contains, free, weapon/mod.rs:471-485.
container_add(c, weapon) == pool_spawn(c, weapon)

container_try_get(c, h) == try_borrow(c, h)

container_contains(c, h) == is_valid_handle(c, h)

container_free(c, h) == pool_free(c, h)

(***************************************************************************)
(* ShotTrail and ShotTrailContainer, level/trail.rs.  A trail is named by   *)
(* its scene node; times are whole ticks.  The alpha written to the node's  *)
(* material is visual.                                                      *)
(***************************************************************************)
\* ShotTrail::new, trail.rs:19-25.
new_trail(node, max_lifetime) ==
    [node |-> node, lifetime |-> 0, max_lifetime |-> max_lifetime]

\* trail.lifetime = (trail.lifetime + dt).min(trail.max_lifetime), trail.rs:36.
trail_step(trail, dt) ==
    [trail EXCEPT !.lifetime = IF @ + dt <= trail.max_lifetime
                               THEN @ + dt ELSE trail.max_lifetime]

\* The test before scene.remove_node, trail.rs:58-60.
trail_expired(trail) == trail.lifetime >= trail.max_lifetime

\* The value of the retain closure, trail.rs:61.
trail_keep_at_limit(trail) == trail.lifetime <= trail.max_lifetime

trail_keep(trail) == trail.lifetime < trail.max_lifetime

\* ShotTrailContainer::update, trail.rs:34-63: the container kept, and the
\* nodes handed to scene.remove_node.
trails_update_unordered(cont, dt) ==
    LET stepped == [i \in DOMAIN cont |-> trail_step(cont[i], dt)]
        kept == SelectSeq(stepped, trail_keep)
    IN  [container |-> [i \in DOMAIN kept |-> kept[Len(kept) + 1 - i]],
         removed |-> SelectSeq(stepped, trail_expired)]

trails_update(cont, dt) ==
    LET stepped == [i \in DOMAIN cont |-> trail_step(cont[i], dt)]
    IN  [container |-> SelectSeq(stepped, trail_keep),
         removed |-> SelectSeq(stepped, trail_expired)]

\* ShotTrailContainer::add, trail.rs:65-67.
trails_add(cont, trail) == Append(cont, trail)

(***************************************************************************)
(* Player, player/mod.rs.  The player record keeps the fields of Player and *)
(* of its Character that decide which messages are sent, what is taken from *)
(* the inventory and how the physical body is driven; the transforms of the *)
(* model, spine, hips and weapon pivot, the camera and the health cylinder  *)
(* are visual and left out.                                                 *)
(***************************************************************************)
PlayerHandle == 1       \* self_handle of the player in the ActorContainer

JUMP_SIGNAL == "JUMP_SIGNAL"
GRAB_WEAPON_SIGNAL == "GRAB_WEAPON_SIGNAL"
PUT_BACK_WEAPON_END_SIGNAL == "PUT_BACK_WEAPON_END_SIGNAL"
TOSS_GRENADE_SIGNAL == "TOSS_GRENADE_SIGNAL"

\* The clips whose event queues Player::update pops, with the signal each
\* clip carries.
Clips == {"jump", "grab", "put_back", "toss_grenade"}

SignalOf(clip) ==
    CASE clip = "jump" -> JUMP_SIGNAL
      [] clip = "grab" -> GRAB_WEAPON_SIGNAL
      [] clip = "put_back" -> PUT_BACK_WEAPON_END_SIGNAL
      [] clip = "toss_grenade" -> TOSS_GRENADE_SIGNAL

\* Active states of the upper body machine that update_shooting tells apart.
UpperStates == {"aim_state", "other_state"}

\* The clips the player enables, disables and rewinds: those of Clips ("jump"
\* is the jump clip of the lower body machine), the jump clip of the upper
\* body machine and the dying clip of each machine.
AnimClips ==
    Clips \cup {"upper_jump", "lower_dying", "upper_dying", "lower_land", "upper_land"}

ClipLength == 3     \* a clip plays from position 0 to position ClipLength
SignalFrame == 2    \* the position at which a clip of Clips carries its signal

\* Animation::rewind, set_enabled, is_enabled and has_ended of the animation
\* runtime.
rewind(a) == [a EXCEPT !.position = 0]

set_enabled(a, enabled) == [a EXCEPT !.enabled = enabled]

is_enabled(a) == a.enabled

has_ended(a) == a.position >= ClipLength

\* What Player::update reads from the lower body machine: its active state,
\* its active transition and is_stunned().
LowerStates == {"jump_state", "fall_state", "land_state", "other_state"}

LowerTransitions == {"idle_to_jump", "walk_to_jump", "none"}

LowerPoses == [state : LowerStates, transition : LowerTransitions, stunned : BOOLEAN]

Standing == [state |-> "other_state", transition |-> "none", stunned |-> FALSE]

RequiredWeapons ==
    {[tag |-> "None"], [tag |-> "Next"], [tag |-> "Previous"]}
    \cup {[tag |-> "Specific", kind |-> k] : k \in WeaponKinds}

\* Inventory::item_count.
item_count(inventory, kind) == inventory[kind]

\* Inventory::try_extract_exact_items(kind, amount): either returns amount and
\* the count decreases by exactly amount, or returns less than amount (the
\* number `short` bounds it) and the inventory is unchanged.
try_extract_exact_items(inventory, kind, amount, short) ==
    IF inventory[kind] >= amount
    THEN [ret |-> amount, inventory |-> [inventory EXCEPT ![kind] = @ - amount]]
    ELSE [ret |-> IF short < amount THEN short ELSE amount - 1,
          inventory |-> inventory]

\* Character::is_dead.
is_dead(p) == p.health <= 0

\* Character::current_weapon(): the handle at index current_weapon, or NONE.
current_weapon(p) ==
    IF p.current_weapon < Len(p.weapons) THEN p.weapons[p.current_weapon + 1] ELSE NONE

\* Character::next_weapon / prev_weapon: step the index inside the list and
\* ask for the weapon to be shown.
next_weapon(p) ==
    IF Len(p.weapons) > 0 /\ p.current_weapon < Len(p.weapons) - 1
    THEN [player |-> [p EXCEPT !.current_weapon = @ + 1],
          msgs |-> <<[tag |-> "ShowWeapon", weapon |-> p.weapons[p.current_weapon + 2]]>>]
    ELSE [player |-> p, msgs |-> <<>>]

prev_weapon(p) ==
    IF p.current_weapon > 0
    THEN [player |-> [p EXCEPT !.current_weapon = @ - 1],
          msgs |-> <<[tag |-> "ShowWeapon", weapon |-> p.weapons[p.current_weapon]]>>]
    ELSE [player |-> p, msgs |-> <<>>]

\* The hit-reaction clips of the lower body and of the upper body machine
\* (hit_reaction_animations() of each).
HitReactionClips == {"lower_hit_reaction", "upper_hit_reaction"}

\* Player::should_be_stunned and Player::stun, player/mod.rs:828-843.
should_be_stunned_strict(p) == p.last_health - p.health > 15

should_be_stunned(p) == p.last_health - p.health >= 15

\* Animation::set_enabled(true).rewind() on every hit-reaction clip, then
\* last_health = health.
stun(p) ==
    [p EXCEPT !.hit_reaction = [c \in HitReactionClips |-> [enabled |-> TRUE, position |-> 0]],
              !.last_health = p.health]

\* One GRAB_WEAPON_SIGNAL event, player/mod.rs:710-724.
grab_event_keeping_request(p, self_handle) ==
    LET d == p.weapon_change_direction
    IN  CASE d.tag = "None" -> [player |-> p, msgs |-> <<>>]
          [] d.tag = "Next" -> next_weapon(p)
          [] d.tag = "Previous" -> prev_weapon(p)
          [] d.tag = "Specific" ->
                [player |-> p,
                 msgs |-> <<[tag |-> "GrabWeapon", kind |-> d.kind, actor |-> self_handle]>>]

grab_event(p, self_handle) ==
    LET d == p.weapon_change_direction
        r == CASE d.tag = "None" -> [player |-> p, msgs |-> <<>>]
               [] d.tag = "Next" -> next_weapon(p)
               [] d.tag = "Previous" -> prev_weapon(p)
               [] d.tag = "Specific" ->
                    [player |-> p,
                     msgs |-> <<[tag |-> "GrabWeapon", kind |-> d.kind,
                                 actor |-> self_handle]>>]
    IN  [player |-> [r.player EXCEPT !.weapon_change_direction = [tag |-> "None"]],
         msgs |-> r.msgs]

\* Player::handle_weapon_grab_signal, player/mod.rs:699-726.
RECURSIVE handle_weapon_grab_signal(_, _, _)
handle_weapon_grab_signal(p, queue, self_handle) ==
    IF queue = <<>> THEN [player |-> p, msgs |-> <<>>]
    ELSE IF Head(queue) = GRAB_WEAPON_SIGNAL
         THEN LET e == grab_event(p, self_handle)
                  rest == handle_weapon_grab_signal(e.player, Tail(queue), self_handle)
              IN  [player |-> rest.player, msgs |-> e.msgs \o rest.msgs]
         ELSE handle_weapon_grab_signal(p, Tail(queue), self_handle)

GrenadeProjectile(self_handle) ==
    [tag |-> "CreateProjectile", kind |-> "Grenade",
     shooter |-> [tag |-> "Actor", handle |-> self_handle]]

\* One TOSS_GRENADE_SIGNAL event, player/mod.rs:754-767.
toss_event_unchecked(inventory, self_handle, short) ==
    [inventory |-> try_extract_exact_items(inventory, "Grenade", 1, short).inventory,
     msgs |-> <<GrenadeProjectile(self_handle)>>]

toss_event(inventory, self_handle, short) ==
    LET r == try_extract_exact_items(inventory, "Grenade", 1, short)
    IN  IF r.ret = 1
        THEN [inventory |-> r.inventory, msgs |-> <<GrenadeProjectile(self_handle)>>]
        ELSE [inventory |-> r.inventory, msgs |-> <<>>]

\* Player::handle_toss_grenade_signal, player/mod.rs:743-769.
RECURSIVE handle_toss_grenade_signal(_, _, _, _)
handle_toss_grenade_signal(p, queue, self_handle, short) ==
    IF queue = <<>> THEN [player |-> p, msgs |-> <<>>]
    ELSE IF Head(queue) = TOSS_GRENADE_SIGNAL
         THEN LET e == toss_event(p.inventory, self_handle, short)
                  rest == handle_toss_grenade_signal([p EXCEPT !.inventory = e.inventory],
                                                     Tail(queue), self_handle, short)
              IN  [player |-> rest.player, msgs |-> e.msgs \o rest.msgs]
         ELSE handle_toss_grenade_signal(p, Tail(queue), self_handle, short)

ShootWeaponMsg(handle) == [tag |-> "ShootWeapon", weapon |-> handle, direction |-> "None"]

\* The fire request of update_shooting, player/mod.rs:989-1010.
fire_ignoring_cooldown(p, weapon, handle, time_elapsed, short) ==
    IF p.controller.shoot
    THEN LET ammo_per_shot == definition(weapon.kind).ammo_consumption_per_shot
             r == try_extract_exact_items(p.inventory, "Ammo", ammo_per_shot, short)
         IN  IF r.ret = ammo_per_shot
             THEN [player |-> [p EXCEPT !.inventory = r.inventory],
                   msgs |-> <<ShootWeaponMsg(handle)>>]
             ELSE [player |-> [p EXCEPT !.inventory = r.inventory], msgs |-> <<>>]
    ELSE [player |-> p, msgs |-> <<>>]

fire_without_reservation(p, weapon, handle, time_elapsed, short) ==
    IF p.controller.shoot /\ can_shoot(weapon, time_elapsed)
    THEN [player |-> p, msgs |-> <<ShootWeaponMsg(handle)>>]
    ELSE [player |-> p, msgs |-> <<>>]

fire(p, weapon, handle, time_elapsed, short) ==
    IF p.controller.shoot /\ can_shoot(weapon, time_elapsed)
    THEN LET ammo_per_shot == definition(weapon.kind).ammo_consumption_per_shot
             r == try_extract_exact_items(p.inventory, "Ammo", ammo_per_shot, short)
         IN  IF r.ret = ammo_per_shot
             THEN [player |-> [p EXCEPT !.inventory = r.inventory],
                   msgs |-> <<ShootWeaponMsg(handle)>>]
             ELSE [player |-> [p EXCEPT !.inventory = r.inventory], msgs |-> <<>>]
    ELSE [player |-> p, msgs |-> <<>>]

(***************************************************************************)
(* SmoothAngle of fyrox::core::math, the type of v_recoil and h_recoil      *)
(* (player/mod.rs:222-223).  Angles are whole ticks, AngleTicks to the full *)
(* turn.                                                                    *)
(***************************************************************************)
AngleTicks == 16                \* ticks in 2 * PI
HalfTurn == AngleTicks \div 2   \* ticks in PI

\* The % of Rust: the remainder takes the sign of the dividend.
Rem(a, b) == IF a >= 0 THEN a % b ELSE -((-a) % b)

Abs(a) == IF a >= 0 THEN a ELSE -a

Max(a, b) == IF a >= b THEN a ELSE b

Min(a, b) == IF a <= b THEN a ELSE b

\* math::wrap_angle: into [0, 2 * PI).
wrap_angle(angle) ==
    IF angle > 0 THEN Rem(angle, AngleTicks) ELSE Rem(angle + AngleTicks, AngleTicks)

\* SmoothAngle::distance: the signed shortest way from angle to target.
distance(a) ==
    LET diff == Rem(a.target - a.angle + HalfTurn, AngleTicks) - HalfTurn
    IN  IF diff < -HalfTurn THEN diff + AngleTicks ELSE diff

\* SmoothAngle::turn_direction.
turn_direction(a) ==
    LET d == distance(a)
    IN  IF d < 0 THEN (IF d < -HalfTurn THEN 1 ELSE -1)
        ELSE IF d > HalfTurn THEN -1 ELSE 1

\* SmoothAngle::update with delta = speed * dt.
smooth_update(a, delta) ==
    LET w == [angle |-> wrap_angle(a.angle), target |-> wrap_angle(a.target)]
    IN  IF w.target = w.angle THEN w
        ELSE IF Abs(distance(w)) > delta
             THEN [w EXCEPT !.angle = @ + turn_direction(w) * delta]
             ELSE [w EXCEPT !.angle = w.target]

\* SmoothAngle::set_target.
set_target_added(a, angle) == [a EXCEPT !.target = @ + angle]

set_target(a, angle) == [a EXCEPT !.target = angle]

\* speed * time.delta of the recoil angles (speed: 1.5 rad/s,
\* player/mod.rs:517-526), in ticks.
RecoilStep == 1

MaxSeed == 3    \* the random source yields 0 .. MaxSeed

\* WeaponDefinition::gen_v_recoil_angle / gen_h_recoil_angle: a random angle
\* of the definition's range, drawn with the given random number.
gen_recoil_angle(range, seed) == range[1] + (seed % (range[2] - range[1] + 1))

\* The recoil decay at the head of update_shooting, player/mod.rs:972-973.
update_recoil(p) ==
    [p EXCEPT !.v_recoil = smooth_update(@, RecoilStep),
              !.h_recoil = smooth_update(@, RecoilStep)]

\* The recoil kick of a successful shot, player/mod.rs:1005-1008.
kick_recoil(p, weapon, v_seed, h_seed) ==
    [p EXCEPT !.v_recoil = set_target(@, gen_recoil_angle(definition(weapon.kind).v_recoil, v_seed)),
              !.h_recoil = set_target(@, gen_recoil_angle(definition(weapon.kind).h_recoil, h_seed))]

\* `upper_body_machine.machine.active_state() == upper_body_machine.aim_state`,
\* player/mod.rs:980.
is_aim_state_by_flag(p, upper_state) == p.controller.aim

is_aim_state(p, upper_state) == upper_state = "aim_state"

\* The laser sight of the weapon and the weapon display are shown or hidden
\* together, player/mod.rs:982-984 and 1012-1015.
show_weapon(p, handle, visible) ==
    [p EXCEPT !.laser_sight[handle] = visible, !.weapon_display.visible = visible]

\* Player::update_shooting, player/mod.rs:965-1018.
update_shooting(p, pool, time_elapsed, upper_state, short, v_seed, h_seed) ==
    LET p0 == update_recoil(p)
    IN  IF p0.current_weapon < Len(p0.weapons)
        THEN LET current_weapon_handle == p0.weapons[p0.current_weapon + 1]
             IN  IF is_aim_state(p0, upper_state)
                 THEN LET r == fire(show_weapon(p0, current_weapon_handle, TRUE),
                                    pool[current_weapon_handle], current_weapon_handle,
                                    time_elapsed, short)
                      IN  IF r.msgs # <<>>
                          THEN [player |-> kick_recoil(r.player, pool[current_weapon_handle],
                                                       v_seed, h_seed),
                                msgs |-> r.msgs]
                          ELSE r
                 ELSE [player |-> show_weapon(p0, current_weapon_handle, FALSE),
                       msgs |-> <<>>]
        ELSE [player |-> p0, msgs |-> <<>>]

\* Player::is_walking, player/mod.rs:845-850.
is_walking(controller) ==
    \/ controller.walk_backward
    \/ controller.walk_forward
    \/ controller.walk_right
    \/ controller.walk_left

\* Player::is_running, player/mod.rs:1067-1072.
is_running(p, lower) ==
    /\ ~is_dead(p)
    /\ p.controller.run
    /\ ~p.controller.aim
    /\ ~lower.stunned

\* Player::can_move, player/mod.rs:1020-1023.
can_move_unless_falling(lower) == lower.state # "fall_state"

can_move(lower) == lower.state # "fall_state" /\ lower.state # "land_state"

\* Lengths the player covers are in units of move_speed * dt, run_factor is
\* in halves, in_air_time in hundredths of a second.  A step of a quantity
\* that follows a target by a fraction num / den of what is left is rounded
\* away from zero: like the f32 it keeps moving until it is at the target.
WalkSpeed == 1

RunScale == 2

InAirLimit == 30

StepToward(d, num, den) ==
    LET m == (Abs(d) * num + den - 1) \div den
    IN  IF d < 0 THEN -m ELSE m

\* player/mod.rs:1109-1114: run_factor += (target_run_factor - run_factor) * 0.1.
update_run_factor(p, running) ==
    LET target_run_factor == IF running THEN RunScale ELSE 0
    IN  [p EXCEPT !.run_factor = @ + StepToward(target_run_factor - @, 1, 10)]

\* Vector3::try_normalize(..).map(|v| v.scale(speed)).unwrap_or_default() on
\* a sum of unit side and look vectors: one component of the result, along
\* the side vector (x) or the look vector (z) of the pivot.
scaled_direction(own, other, speed) ==
    IF other = 0 THEN own * speed ELSE own * ((speed * 707 + 500) \div 1000)

\* Player::update_velocity, player/mod.rs:771-812.
update_velocity(p, can_move_now) ==
    LET c == p.controller
        side == (IF c.walk_left THEN 1 ELSE 0) - (IF c.walk_right THEN 1 ELSE 0)
        look == (IF c.walk_forward THEN 1 ELSE 0) - (IF c.walk_backward THEN 1 ELSE 0)
        speed == IF can_move_now
                 THEN (WalkSpeed * (RunScale + 3 * p.run_factor)) \div RunScale
                 ELSE 0
        target_velocity == [x |-> scaled_direction(side, look, speed),
                            z |-> scaled_direction(look, side, speed)]
    IN  [p EXCEPT !.velocity =
            [x |-> @.x + StepToward(target_velocity.x - @.x, 15, 100),
             z |-> @.z + StepToward(target_velocity.z - @.z, 15, 100)]]

\* Player::handle_jump_signal, player/mod.rs:678-697: Option<f32>.
jump_qualifies(lower) ==
    \/ lower.transition = "idle_to_jump"
    \/ lower.transition = "walk_to_jump"
    \/ lower.state = "jump_state"

RECURSIVE handle_jump_signal_added(_, _, _)
handle_jump_signal_added(queue, lower, dt) ==
    IF queue = <<>> THEN [some |-> FALSE, value |-> 0]
    ELSE LET rest == handle_jump_signal_added(Tail(queue), lower, dt)
         IN  IF Head(queue) = JUMP_SIGNAL /\ jump_qualifies(lower)
             THEN [some |-> TRUE, value |-> 3 * dt + rest.value]
             ELSE rest

handle_jump_signal(queue, lower, dt) ==
    IF \E i \in DOMAIN queue : queue[i] = JUMP_SIGNAL /\ jump_qualifies(lower)
    THEN [some |-> TRUE, value |-> 3 * dt]
    ELSE [some |-> FALSE, value |-> 0]

\* Player::handle_put_back_weapon_end_signal, player/mod.rs:728-741.
handle_put_back_weapon_end_signal(p, queue) ==
    IF \E i \in DOMAIN queue : queue[i] = PUT_BACK_WEAPON_END_SIGNAL
    THEN [p EXCEPT !.animations["grab"] = set_enabled(@, TRUE)]
    ELSE p

\* `distance < 0.75`, in hundredths.
InteractRange == 75

\* Player::check_items, player/mod.rs:553-590.  pair_iter visits the items in
\* the order of their handles; the first one in range ends the loop.
check_items_holding(p, items, self_handle) ==
    LET near == {i \in DOMAIN items : items[i].distance < InteractRange}
    IN  IF near = {} THEN [player |-> p, msgs |-> <<>>]
        ELSE LET i == CHOOSE n \in near : \A k \in near : n <= k
                 show == [tag |-> "ShowItemDisplay", item |-> items[i].kind,
                          count |-> items[i].stack_size]
             IN  [player |-> [p EXCEPT !.item_display = [visible |-> TRUE, item |-> i]],
                  msgs |-> IF p.controller.action
                           THEN <<show, [tag |-> "PickUpItem", actor |-> self_handle, item |-> i],
                                  [tag |-> "SyncInventory"]>>
                           ELSE <<show>>]

check_items(p, items, self_handle) ==
    LET near == {i \in DOMAIN items : items[i].distance < InteractRange}
    IN  IF near = {} THEN [player |-> p, msgs |-> <<>>]
        ELSE LET i == CHOOSE n \in near : \A k \in near : n <= k
                 show == [tag |-> "ShowItemDisplay", item |-> items[i].kind,
                          count |-> items[i].stack_size]
             IN  [player |-> [p EXCEPT !.item_display = [visible |-> TRUE, item |-> i],
                                       !.controller.action = FALSE],
                  msgs |-> IF p.controller.action
                           THEN <<show, [tag |-> "PickUpItem", actor |-> self_handle, item |-> i],
                                  [tag |-> "SyncInventory"]>>
                           ELSE <<show>>]

CallElevator(elevator, floor) == [tag |-> "CallElevator", elevator |-> elevator, floor |-> floor]

\* Player::check_elevators, player/mod.rs:609-676: the floors of one elevator.
floor_call(e, handle, controller) ==
    IF e.distance < InteractRange /\ controller.action
    THEN LET last_index == Max(e.points - 1, 0)
         IN  IF e.current_floor = last_index THEN <<CallElevator(handle, 0)>>
             ELSE IF e.current_floor = 0 THEN <<CallElevator(handle, last_index)>>
             ELSE <<>>
    ELSE <<>>

\* One call button of an elevator, player/mod.rs:639-672.
call_button_messages(b, e, handle, controller) ==
    IF b.distance < InteractRange
    THEN (IF b.kind = "FloorSelector" /\ (controller.cursor_down \/ controller.cursor_up)
          THEN <<[tag |-> "SetCallButtonFloor", call_button |-> b.handle,
                  floor |-> IF controller.cursor_down THEN Max(b.floor - 1, 0)
                            ELSE Min(b.floor + 1, Max(e.points - 1, 0))]>>
          ELSE <<>>)
         \o (IF controller.action THEN <<CallElevator(handle, b.floor)>> ELSE <<>>)
    ELSE <<>>

RECURSIVE call_buttons_loop(_, _, _, _)
call_buttons_loop(buttons, e, handle, controller) ==
    IF buttons = <<>> THEN <<>>
    ELSE call_button_messages(Head(buttons), e, handle, controller)
         \o call_buttons_loop(Tail(buttons), e, handle, controller)

RECURSIVE elevators_loop(_, _, _)
elevators_loop(elevators, handle, controller) ==
    IF handle > Len(elevators) THEN <<>>
    ELSE floor_call(elevators[handle], handle, controller)
         \o call_buttons_loop(elevators[handle].call_buttons, elevators[handle], handle,
                              controller)
         \o elevators_loop(elevators, handle + 1, controller)

check_elevators(p, elevators) == elevators_loop(elevators, 1, p.controller)

\* The inputs Player::update_animation_machines hands to the two machines,
\* player/mod.rs:889-921.
machine_inputs(p, weapon_kind, is_walking_now, is_jumping) ==
    [lower |-> [is_walking |-> is_walking_now, is_jumping |-> is_jumping,
                has_ground_contact |-> p.in_air_time <= InAirLimit,
                run_factor |-> p.run_factor,
                is_dead |-> is_dead(p),
                should_be_stunned |-> FALSE,
                weapon_kind |-> weapon_kind],
     upper |-> [is_walking |-> is_walking_now, is_jumping |-> is_jumping,
                has_ground_contact |-> p.in_air_time <= InAirLimit,
                is_aiming |-> p.controller.aim,
                toss_grenade |-> p.controller.toss_grenade,
                weapon_kind |-> weapon_kind,
                change_weapon |-> p.weapon_change_direction # [tag |-> "None"],
                run_factor |-> p.run_factor,
                is_dead |-> is_dead(p),
                should_be_stunned |-> should_be_stunned(p)]]

\* Player::update_animation_machines, player/mod.rs:872-923: the stun; the
\* two machines are advanced by the animation runtime.
update_animation_machines(p) == IF should_be_stunned(p) THEN stun(p) ELSE p

NoEvents == [c \in Clips |-> <<>>]

\* `while let Some(event) = animation.pop_event()`: the queue once the loop
\* of a handler has ended.
pop_events_peek(queue) == queue

pop_events(queue) == <<>>

\* Player::current_weapon_kind, player/mod.rs:814-826: `weapons[handle]`
\* panics on a handle whose weapon was freed.
current_weapon_kind(p, pool) ==
    IF current_weapon(p) # NONE
    THEN IF pool[current_weapon(p)].free
         THEN "Panic"
         ELSE (IF pool[current_weapon(p)].kind = "Glock" THEN "Pistol" ELSE "Rifle")
    ELSE "Rifle"

FrameDelta == 5     \* GameTime::delta of a frame of the player, in hundredths

\* player/mod.rs:1123-1137: the body of a living player.  The horizontal
\* components of lin_vel are lengths per frame, the vertical one is in metres
\* per second.
drive_body(p, new_y_vel, dt) ==
    [p EXCEPT !.body.ang_vel = 0,
              !.body.lin_vel = [x |-> p.velocity.x,
                                y |-> IF new_y_vel.some THEN new_y_vel.value \div dt ELSE @.y,
                                z |-> p.velocity.z]]

\* player/mod.rs:1147-1150: body.local_transform_mut().set_rotation(quat_yaw).
turn_body_whenever_able(p, can_move_now, walking) ==
    IF can_move_now THEN [p EXCEPT !.body.rotation = p.controller.yaw] ELSE p

turn_body(p, can_move_now, walking) ==
    IF can_move_now /\ (walking \/ p.controller.aim)
    THEN [p EXCEPT !.body.rotation = p.controller.yaw]
    ELSE p

\* player/mod.rs:1217-1221 and 1232.
update_in_air_time(p, has_ground_contact, dt) ==
    [p EXCEPT !.in_air_time = IF has_ground_contact THEN 0 ELSE @ + dt,
              !.item_display.visible = FALSE]

\* player/mod.rs:1223-1230: the landing clips of both machines.
rewind_land_animations(p, has_ground_contact) ==
    IF ~has_ground_contact
    THEN [p EXCEPT !.animations["lower_land"] = rewind(@),
                   !.animations["upper_land"] = rewind(@)]
    ELSE p

\* player/mod.rs:1246-1258: the body of a dead player.
lock_body_keeping_spin(p) ==
    [p EXCEPT !.animations["lower_dying"] = set_enabled(@, TRUE),
              !.animations["upper_dying"] = set_enabled(@, TRUE),
              !.body.lin_vel = [x |-> 0, y |-> @.y, z |-> 0]]

lock_body(p) ==
    [p EXCEPT !.animations["lower_dying"] = set_enabled(@, TRUE),
              !.animations["upper_dying"] = set_enabled(@, TRUE),
              !.body.ang_vel = 0,
              !.body.lin_vel = [x |-> 0, y |-> @.y, z |-> 0]]

NoMachineInputs == [fed |-> FALSE]

\* Player::update, player/mod.rs:1074-1271.  env holds what the update finds
\* around the player: has_ground_contact (`ground`) and the lower body machine
\* once it has been advanced (`lower`); upper_state is the active state of the
\* upper body machine; lvl holds the items and the elevators; the level has
\* no door.  update_animation_machines starts with current_weapon_kind; a
\* panic there ends the call with nothing done.
update_as(p, pool, time_elapsed, queues, upper_state, short, self_handle, v_seed, h_seed, env, lvl, dead) ==
    IF current_weapon_kind(p, pool) = "Panic"
    THEN [player |-> p, events |-> queues, msgs |-> <<>>, panicked |-> TRUE,
          machines |-> NoMachineInputs]
    ELSE
    LET walking == is_walking(p.controller)
        machines == [fed |-> TRUE]
                    @@ machine_inputs(p, current_weapon_kind(p, pool), walking,
                                      env.ground /\ p.controller.jump)
        p1 == update_animation_machines(p)
        running == is_running(p1, env.lower)
    IN  IF ~dead
        THEN LET can_move_now == can_move(env.lower)
                 v == update_velocity(update_run_factor(p1, running), can_move_now)
                 new_y_vel == handle_jump_signal(queues["jump"], env.lower, FrameDelta)
                 g == handle_weapon_grab_signal(v, queues["grab"], self_handle)
                 b == handle_put_back_weapon_end_signal(g.player, queues["put_back"])
                 t == handle_toss_grenade_signal(b, queues["toss_grenade"],
                                                 self_handle, short)
                 d == turn_body(drive_body(t.player, new_y_vel, FrameDelta),
                                can_move_now, walking)
                 a == rewind_land_animations(update_in_air_time(d, env.ground, FrameDelta),
                                             env.ground)
                 i == check_items(a, lvl.items, self_handle)
                 e == check_elevators(i.player, lvl.elevators)
                 s == update_shooting(i.player, pool, time_elapsed, upper_state, short,
                                      v_seed, h_seed)
             IN  [player |-> s.player, events |-> [c \in Clips |-> pop_events(queues[c])],
                  msgs |-> g.msgs \o t.msgs \o i.msgs \o e \o s.msgs,
                  panicked |-> FALSE, machines |-> machines]
        ELSE [player |-> lock_body(p1), events |-> queues, msgs |-> <<>>,
              panicked |-> FALSE, machines |-> machines]

\* Player::update taking the branch of the living whatever the health is.
update_as_if_alive(p, pool, time_elapsed, queues, upper_state, short, self_handle, v_seed, h_seed, env, lvl) ==
    update_as(p, pool, time_elapsed, queues, upper_state, short, self_handle, v_seed, h_seed,
              env, lvl, FALSE)

\* Player::update, player/mod.rs:1074-1271: the branch is chosen by is_dead
\* after the animation machines were fed.
update(p, pool, time_elapsed, queues, upper_state, short, self_handle, v_seed, h_seed, env, lvl) ==
    update_as(p, pool, time_elapsed, queues, upper_state, short, self_handle, v_seed, h_seed,
              env, lvl, is_dead(update_animation_machines(p)))

\* Player::calculate_model_angle, player/mod.rs:925-963, in degrees.
calculate_model_angle_right_first(controller) ==
    IF controller.aim
    THEN IF controller.walk_right
         THEN (IF controller.walk_backward THEN 45 ELSE -45)
         ELSE IF controller.walk_left
              THEN (IF controller.walk_backward THEN -45 ELSE 45)
              ELSE 0
    ELSE IF controller.walk_right
         THEN (IF controller.walk_forward THEN -45
               ELSE IF controller.walk_backward THEN -135 ELSE -90)
         ELSE IF controller.walk_left
              THEN (IF controller.walk_forward THEN 45
                    ELSE IF controller.walk_backward THEN 135 ELSE 90)
              ELSE IF controller.walk_backward THEN 180 ELSE 0

calculate_model_angle(controller) ==
    IF controller.aim
    THEN IF controller.walk_left
         THEN (IF controller.walk_backward THEN -45 ELSE 45)
         ELSE IF controller.walk_right
              THEN (IF controller.walk_backward THEN 45 ELSE -45)
              ELSE 0
    ELSE IF controller.walk_left
         THEN (IF controller.walk_forward THEN 45
               ELSE IF controller.walk_backward THEN 135 ELSE 90)
         ELSE IF controller.walk_right
              THEN (IF controller.walk_forward THEN -45
                    ELSE IF controller.walk_backward THEN -135 ELSE -90)
              ELSE IF controller.walk_backward THEN 180 ELSE 0

\* The buttons of the control scheme that set one flag of the controller.
FlagButtons == {"aim", "move_forward", "move_backward", "move_left", "move_right"}

\* Player::process_input_event for these buttons and for run, cursor_up,
\* cursor_down and action, player/mod.rs:1344-1357, 1377-1378 and 1427-1432.
input_flag(p, button, pressed) ==
    CASE button = "aim" ->
            [p EXCEPT !.controller.aim = pressed,
                      !.inventory_display.visible = IF pressed THEN FALSE ELSE @,
                      !.journal_display.visible = IF pressed THEN FALSE ELSE @]
      [] button = "move_forward" -> [p EXCEPT !.controller.walk_forward = pressed]
      [] button = "move_backward" -> [p EXCEPT !.controller.walk_backward = pressed]
      [] button = "move_left" -> [p EXCEPT !.controller.walk_left = pressed]
      [] button = "move_right" -> [p EXCEPT !.controller.walk_right = pressed]
      [] button = "run" -> [p EXCEPT !.controller.run = pressed]
      [] button = "cursor_up" -> [p EXCEPT !.controller.cursor_up = pressed]
      [] button = "cursor_down" -> [p EXCEPT !.controller.cursor_down = pressed]
      [] button = "action" -> [p EXCEPT !.controller.action = pressed]

\* Angles of the controller are in thirds of a right angle: 90 degrees.
PitchLimit == 3

\* control_scheme.mouse_sens * dt, player/mod.rs:1313.
MouseSens == 1

\* Player::process_input_event for DeviceEvent::MouseMotion,
\* player/mod.rs:1312-1325.
input_mouse_motion_unclamped(p, dx, dy, mouse_y_inverse) ==
    LET pitch_direction == IF mouse_y_inverse THEN -1 ELSE 1
    IN  [p EXCEPT !.controller.yaw = @ - dx * MouseSens,
                  !.controller.pitch = @ + pitch_direction * dy * MouseSens]

input_mouse_motion(p, dx, dy, mouse_y_inverse) ==
    LET pitch_direction == IF mouse_y_inverse THEN -1 ELSE 1
        lower == Max(p.controller.pitch + pitch_direction * dy * MouseSens, -PitchLimit)
    IN  [p EXCEPT !.controller.yaw = @ - dx * MouseSens,
                  !.controller.pitch = IF lower <= PitchLimit THEN lower ELSE PitchLimit]

\* Player::process_input_event for the shoot button, player/mod.rs:1425-1426.
input_shoot(p, pressed) == [p EXCEPT !.controller.shoot = pressed]

\* Player::process_input_event for the toss_grenade button,
\* player/mod.rs:1414-1424.
input_toss_grenade_once_started(p, pressed) ==
    IF item_count(p.inventory, "Grenade") > 0
    THEN [p EXCEPT !.controller.toss_grenade = pressed,
                   !.animations["toss_grenade"] =
                        IF pressed /\ (~is_enabled(@) \/ has_ended(@))
                        THEN rewind(set_enabled(@, TRUE)) ELSE @]
    ELSE p

input_toss_grenade(p, pressed) ==
    IF item_count(p.inventory, "Grenade") > 0
    THEN [p EXCEPT !.controller.toss_grenade = pressed,
                   !.animations["toss_grenade"] =
                        IF pressed THEN rewind(set_enabled(@, TRUE)) ELSE @]
    ELSE p

\* Player::process_input_event for the inventory and journal buttons,
\* player/mod.rs:1433-1457.
DisplayButtons == {"inventory", "journal"}

input_display_keeping_other(p, button, pressed) ==
    IF pressed /\ ~p.controller.aim
    THEN IF button = "inventory"
         THEN [player |-> [p EXCEPT !.inventory_display.visible = ~@],
               msgs |-> IF ~p.inventory_display.visible
                        THEN <<[tag |-> "SyncInventory"]>> ELSE <<>>]
         ELSE [player |-> [p EXCEPT !.journal_display.visible = ~@],
               msgs |-> IF ~p.journal_display.visible
                        THEN <<[tag |-> "SyncJournal"]>> ELSE <<>>]
    ELSE [player |-> p, msgs |-> <<>>]

input_display(p, button, pressed) ==
    IF pressed /\ ~p.controller.aim
    THEN IF button = "inventory"
         THEN [player |-> [p EXCEPT !.journal_display.visible = FALSE,
                                    !.inventory_display.visible = ~@],
               msgs |-> IF ~p.inventory_display.visible
                        THEN <<[tag |-> "SyncInventory"]>> ELSE <<>>]
         ELSE [player |-> [p EXCEPT !.inventory_display.visible = FALSE,
                                    !.journal_display.visible = ~@],
               msgs |-> IF ~p.journal_display.visible
                        THEN <<[tag |-> "SyncJournal"]>> ELSE <<>>]
    ELSE [player |-> p, msgs |-> <<>>]

\* Player::process_input_event for the jump button, player/mod.rs:1358-1376.
input_jump(p, pressed) ==
    LET jump_anim == p.animations["jump"]
        can_jump == ~is_enabled(jump_anim) \/ has_ended(jump_anim)
    IN  [p EXCEPT !.animations["jump"] =
                        IF pressed /\ can_jump THEN rewind(set_enabled(@, TRUE)) ELSE @,
                  !.animations["upper_jump"] =
                        IF pressed /\ can_jump THEN rewind(set_enabled(@, TRUE)) ELSE @,
                  !.controller.jump = pressed /\ can_jump]

\* The buttons of the control scheme that ask for another weapon (grab_ak47
\* asks for a kind no weapon of the model has).
GrabButtons == {"grab_m4", "grab_plasma_gun", "grab_pistol"}

ChangeButtons == GrabButtons \cup {"next_weapon", "prev_weapon"}

KindOfButton(button) ==
    CASE button = "grab_m4" -> "M4"
      [] button = "grab_plasma_gun" -> "PlasmaRifle"
      [] button = "grab_pistol" -> "Glock"

\* player/mod.rs:1331-1333.
can_change_weapon_while_grabbing(p) ==
    /\ p.weapon_change_direction = [tag |-> "None"]
    /\ Len(p.weapons) > 1

can_change_weapon(p) ==
    /\ p.weapon_change_direction = [tag |-> "None"]
    /\ has_ended(p.animations["grab"])
    /\ Len(p.weapons) > 1

\* player/mod.rs:1335-1339: `weapons[handle]` panics on a handle whose weapon
\* was freed.
held_weapon_kind(p, pool) ==
    IF current_weapon(p) # NONE
    THEN (IF pool[current_weapon(p)].free THEN "Panic" ELSE pool[current_weapon(p)].kind)
    ELSE "None"

\* The local weapon_change_direction of process_input_event once the button
\* has been matched, player/mod.rs:1341 and 1386-1413.
requested_weapon(p, pool, button, pressed) ==
    CASE button \in GrabButtons ->
            IF /\ can_change_weapon(p)
               /\ held_weapon_kind(p, pool) # "None"
               /\ held_weapon_kind(p, pool) # KindOfButton(button)
            THEN [tag |-> "Specific", kind |-> KindOfButton(button)]
            ELSE [tag |-> "None"]
      [] button = "next_weapon" ->
            IF pressed /\ p.current_weapon < Max(Len(p.weapons) - 1, 0) /\ can_change_weapon(p)
            THEN [tag |-> "Next"]
            ELSE [tag |-> "None"]
      [] button = "prev_weapon" ->
            IF pressed /\ p.current_weapon > 0 /\ can_change_weapon(p)
            THEN [tag |-> "Previous"]
            ELSE [tag |-> "None"]

\* Player::process_input_event for these buttons, player/mod.rs:1331-1341,
\* 1386-1413 and 1460-1473.
input_weapon_change(p, pool, button, pressed) ==
    LET weapon_change_direction == requested_weapon(p, pool, button, pressed)
    IN  IF weapon_change_direction # [tag |-> "None"]
        THEN [p EXCEPT !.weapon_change_direction = weapon_change_direction,
                       !.animations["put_back"] = rewind(@),
                       !.animations["grab"] = rewind(set_enabled(@, FALSE))]
        ELSE p

(***************************************************************************)
(* State, bounds and actions.                                               *)
(***************************************************************************)
MaxAmmo == 3        \* most ammo the inventory starts with
MaxGrenades == 2    \* most grenades the inventory starts with
MaxQueue == 2       \* most events pending in one clip's queue
MaxWeapons == 5     \* most weapons ever added to the WeaponContainer
MaxTrails == 3      \* most trails ever added to the ShotTrailContainer
MaxLifetime == 3    \* largest max_lifetime of a trail, in ticks
MaxDt == 2          \* largest dt of one ShotTrailContainer::update, in ticks
MaxMouseDelta == 4 \* largest mouse motion of one event, per axis
MaxYaw == 5        \* the yaw is followed up to this magnitude
MouseDeltas == {-MaxMouseDelta, -1, 0, 1, MaxMouseDelta}
MaxDamageTaken == 45    \* most damage dealt to the player by Damage
MaxAirTime == 5         \* in_air_time is followed up to this, in hundredths
DamageAmounts == {5, 15, 20}

NoQuery == [asked |-> FALSE]

Pending == [tag |-> "pending"]

NoMotion == [dx |-> 0, dy |-> 0, mouse_y_inverse |-> FALSE]

NoInput == [button |-> "none", pressed |-> FALSE]

\* `repeated` is set by a signal handler that runs right after a run of the
\* same handler, `motion` by a mouse motion event, `input` by a button event.
NoShot == [fired |-> FALSE]

Snapshot ==
    [player |-> player, events |-> events, repeated |-> FALSE, motion |-> NoMotion,
     input |-> NoInput, shot |-> NoShot]

CountTag(msgs, tag) == Cardinality({i \in DOMAIN msgs : msgs[i].tag = tag})

CountSignal(queue, id) == Cardinality({i \in DOMAIN queue : queue[i] = id})

RayIdle == ray_args = [idle |-> TRUE] /\ ray_result = Pending

NoAngle == [computed |-> FALSE]

\* A level without items and elevators; no update has run.
EmptyLevel == [items |-> <<>>, elevators |-> <<>>]

NoFrame == [lower |-> Standing, ground |-> TRUE, machines |-> NoMachineInputs]

\* `picked` counts the PickUpItem messages sent since the action button was
\* last pressed, `called` the CallElevator messages sent for standing in an
\* elevator and `pushed` those sent for a call button, each up to TallyCap.
TallyCap == 2

\* `volley`, where it is kept, holds for every weapon the times of the last
\* two ShootWeapon messages sent for it (-1: none), the ammo those messages
\* stand for (`due`) and the ammo taken from the inventory (`spent`).
NoVolley == [on |-> FALSE]

VolleyStart ==
    [on |-> TRUE, prev |-> [w \in WeaponHandles |-> -1], last |-> [w \in WeaponHandles |-> -1],
     due |-> 0, spent |-> 0]

\* `seen`, where it is kept, holds the health the last two updates found;
\* a player that was not updated yet has the health it was created with.
NoneSeen == [on |-> FALSE]

SeenAt(health) == [on |-> TRUE, before |-> health, now |-> health]

seen_after(r) ==
    IF tally.seen.on
    THEN [on |-> TRUE, before |-> tally.seen.now, now |-> r.player.health]
    ELSE tally.seen

NoTally ==
    [removed |-> 0, emitted |-> 0, picked |-> 0, called |-> 0, pushed |-> 0,
     volley |-> NoVolley, seen |-> NoneSeen]

AskedToShoot(msgs, w) == \E i \in DOMAIN msgs : msgs[i] = ShootWeaponMsg(w)

volley_after(r) ==
    LET v == tally.volley
        asked == {w \in WeaponHandles : AskedToShoot(r.msgs, w)}
        price(w) == definition(weapons[w].kind).ammo_consumption_per_shot
    IN  IF ~v.on THEN v
        ELSE [on |-> TRUE,
              prev |-> [w \in WeaponHandles |-> IF w \in asked THEN v.last[w] ELSE v.prev[w]],
              last |-> [w \in WeaponHandles |-> IF w \in asked THEN elapsed ELSE v.last[w]],
              due |-> v.due + (IF 1 \in asked THEN price(1) ELSE 0)
                            + (IF 2 \in asked THEN price(2) ELSE 0),
              spent |-> v.spent + (player.inventory["Ammo"] - r.player.inventory["Ammo"])]

\* The CallElevator messages of r that the elevators themselves have caused.
RECURSIVE FloorCalls(_, _, _)
FloorCalls(elevators, handle, controller) ==
    IF handle > Len(elevators) THEN 0
    ELSE Len(floor_call(elevators[handle], handle, controller))
         + FloorCalls(elevators, handle + 1, controller)

FloorCallsIn(r) ==
    Min(FloorCalls(level.elevators, 1, r.player.controller), CountTag(r.msgs, "CallElevator"))

\* The tally once an operation has returned r.
tally_after(r) ==
    [removed |-> tally.removed + (player.inventory["Grenade"] - r.player.inventory["Grenade"]),
     emitted |-> tally.emitted + CountTag(r.msgs, "CreateProjectile"),
     picked |-> Min(tally.picked + CountTag(r.msgs, "PickUpItem"), TallyCap),
     called |-> Min(tally.called + FloorCallsIn(r), TallyCap),
     pushed |-> Min(tally.pushed + CountTag(r.msgs, "CallElevator") - FloorCallsIn(r),
                    TallyCap),
     volley |-> volley_after(r),
     seen |-> seen_after(r)]

\* WeaponContainer::new, ShotTrailContainer::default, no model angle computed,
\* on one of the given levels.
ExtIdleOn(levels) ==
    /\ container = [records |-> <<>>, free_stack |-> <<>>]
    /\ issued = {}
    /\ trails = <<>>
    /\ trail_log = <<>>
    /\ model_angle = NoAngle
    /\ level \in levels
    /\ frame = NoFrame

ExtIdle == ExtIdleOn({EmptyLevel})

WeaponsIdle ==
    /\ weapons = [w \in WeaponHandles |-> FREE]
    /\ elapsed = 0
    /\ outbox = <<>>
    /\ can_shoot_result = NoQuery
    /\ shot_log = [w \in WeaponHandles |-> -1]

\* Player::new without persistent data, player/mod.rs:443-530, holding no
\* weapon and nothing in the inventory.  The clips stand where a clip that
\* has played once is left; the dying clips have never been enabled.
IdlePlayer ==
    [health |-> 100, last_health |-> 100,
     inventory |-> [Ammo |-> 0, Grenade |-> 0],
     weapons |-> <<>>, current_weapon |-> 0,
     weapon_change_direction |-> [tag |-> "None"],
     v_recoil |-> [angle |-> 0, target |-> 0],
     h_recoil |-> [angle |-> 0, target |-> 0],
     hit_reaction |-> [c \in HitReactionClips |-> [enabled |-> FALSE, position |-> 0]],
     run_factor |-> 0, in_air_time |-> 0, velocity |-> [x |-> 0, z |-> 0],
     body |-> [ang_vel |-> 0, lin_vel |-> [x |-> 0, y |-> 0, z |-> 0], rotation |-> 0],
     animations |-> [c \in AnimClips |->
                        IF c \in {"lower_dying", "upper_dying"}
                        THEN [enabled |-> FALSE, position |-> 0]
                        ELSE [enabled |-> TRUE, position |-> ClipLength]],
     item_display |-> [visible |-> FALSE, item |-> 0],
     weapon_display |-> [visible |-> TRUE],
     inventory_display |-> [visible |-> FALSE],
     journal_display |-> [visible |-> FALSE],
     laser_sight |-> [w \in WeaponHandles |-> FALSE],
     controller |-> [shoot |-> FALSE, toss_grenade |-> FALSE, aim |-> FALSE,
                     walk_forward |-> FALSE, walk_backward |-> FALSE,
                     walk_left |-> FALSE, walk_right |-> FALSE,
                     jump |-> FALSE, run |-> FALSE, action |-> FALSE,
                     cursor_up |-> FALSE, cursor_down |-> FALSE,
                     yaw |-> 0, pitch |-> 0]]

PlayerIdle ==
    /\ player = IdlePlayer
    /\ events = NoEvents
    /\ upper_active_state = "other_state"
    /\ pre = [player |-> IdlePlayer, events |-> NoEvents, repeated |-> FALSE,
             motion |-> NoMotion, input |-> NoInput, shot |-> NoShot]
    /\ op = "init"
    /\ tally = NoTally

\* The game clock advances by dt between two operations.
Tick(dt) ==
    /\ elapsed + dt <= MaxTime
    /\ elapsed' = elapsed + dt
    /\ can_shoot_result' = NoQuery
    /\ outbox' = <<>>
    /\ op' = "tick"
    /\ pre' = Snapshot
    /\ UNCHANGED <<weapons, shot_log>>
    /\ UNCHANGED <<player, events, upper_active_state, tally>>
    /\ UNCHANGED ray_vars
    /\ UNCHANGED ext_vars

\* Weapon::shoot is called on a weapon of the container at the current time
\* (a ShootWeapon message is processed, or a bot fires).
WeaponShoot(w, scene, direction) ==
    /\ ~weapons[w].free
    /\ weapons' = [weapons EXCEPT ![w] = shoot(weapons[w], elapsed)]
    /\ outbox' = shoot_messages(weapons[w], w, scene, direction)
    /\ shot_log' = [shot_log EXCEPT ![w] = elapsed]
    /\ can_shoot_result' = NoQuery
    /\ op' = "shoot"
    /\ pre' = [Snapshot EXCEPT !.shot = [fired |-> TRUE, weapon |-> w, scene |-> scene,
                                         direction |-> direction]]
    /\ UNCHANGED elapsed
    /\ UNCHANGED <<player, events, upper_active_state, tally>>
    /\ UNCHANGED ray_vars
    /\ UNCHANGED ext_vars

\* Weapon::can_shoot is called on a weapon of the container at the current time.
CanShoot(w) ==
    /\ ~weapons[w].free
    /\ can_shoot_result' =
            [asked |-> TRUE, weapon |-> w, value |-> can_shoot(weapons[w], elapsed)]
    /\ outbox' = <<>>
    /\ op' = "can_shoot"
    /\ pre' = Snapshot
    /\ UNCHANGED <<weapons, elapsed, shot_log>>
    /\ UNCHANGED <<player, events, upper_active_state, tally>>
    /\ UNCHANGED ray_vars
    /\ UNCHANGED ext_vars

\* The animation runtime crosses the signal of a clip and queues its event.
AnimationSignal(clip) ==
    /\ Len(events[clip]) < MaxQueue
    /\ events' = [events EXCEPT ![clip] = Append(@, SignalOf(clip))]
    /\ outbox' = <<>>
    /\ can_shoot_result' = NoQuery
    /\ op' = "signal"
    /\ pre' = Snapshot
    /\ UNCHANGED <<weapons, elapsed, shot_log>>
    /\ UNCHANGED <<player, upper_active_state, tally>>
    /\ UNCHANGED ray_vars
    /\ UNCHANGED ext_vars

\* Player::process_input_event with the shoot button.
InputShoot(pressed) ==
    /\ player' = input_shoot(player, pressed)
    /\ outbox' = <<>>
    /\ can_shoot_result' = NoQuery
    /\ op' = "input"
    /\ pre' = [Snapshot EXCEPT !.input = [button |-> "shoot", pressed |-> pressed]]
    /\ UNCHANGED <<weapons, elapsed, shot_log>>
    /\ UNCHANGED <<events, upper_active_state, tally>>
    /\ UNCHANGED ray_vars
    /\ UNCHANGED ext_vars

\* Player::process_input_event with the toss_grenade button.
InputTossGrenade(pressed) ==
    /\ player' = input_toss_grenade(player, pressed)
    /\ outbox' = <<>>
    /\ can_shoot_result' = NoQuery
    /\ op' = "input"
    /\ pre' = [Snapshot EXCEPT !.input = [button |-> "toss_grenade", pressed |-> pressed]]
    /\ UNCHANGED <<weapons, elapsed, shot_log>>
    /\ UNCHANGED <<events, upper_active_state, tally>>
    /\ UNCHANGED ray_vars
    /\ UNCHANGED ext_vars

\* Player::process_input_event with the jump button.
InputJump(pressed) ==
    /\ player' = input_jump(player, pressed)
    /\ outbox' = <<>>
    /\ can_shoot_result' = NoQuery
    /\ op' = "input"
    /\ pre' = [Snapshot EXCEPT !.input = [button |-> "jump", pressed |-> pressed]]
    /\ UNCHANGED <<weapons, elapsed, shot_log>>
    /\ UNCHANGED <<events, upper_active_state, tally>>
    /\ UNCHANGED ray_vars
    /\ UNCHANGED ext_vars

\* Player::process_input_event with a button that asks for another weapon.
InputWeaponChange(button, pressed) ==
    /\ held_weapon_kind(player, weapons) # "Panic"
    /\ player' = input_weapon_change(player, weapons, button, pressed)
    /\ outbox' = <<>>
    /\ can_shoot_result' = NoQuery
    /\ op' = "input"
    /\ pre' = [Snapshot EXCEPT !.input = [button |-> button, pressed |-> pressed]]
    /\ UNCHANGED <<weapons, elapsed, shot_log>>
    /\ UNCHANGED <<events, upper_active_state, tally>>
    /\ UNCHANGED ray_vars
    /\ UNCHANGED ext_vars

\* The physics engine integrates the rigid body of the player: gravity and
\* contacts leave it with some vertical and some angular velocity.
FallSpeeds == {-2, 0}

PhysicsStep(y, spin) ==
    /\ player' = [player EXCEPT !.body.lin_vel.y = y, !.body.ang_vel = spin]
    /\ outbox' = <<>>
    /\ can_shoot_result' = NoQuery
    /\ op' = "physics"
    /\ pre' = Snapshot
    /\ UNCHANGED <<weapons, elapsed, shot_log>>
    /\ UNCHANGED <<events, upper_active_state, tally>>
    /\ UNCHANGED ray_vars
    /\ UNCHANGED ext_vars

\* The animation runtime plays an enabled clip one position further; at
\* SignalFrame a clip of Clips queues its signal.
AnimationPlays(clip) ==
    /\ is_enabled(player.animations[clip])
    /\ ~has_ended(player.animations[clip])
    /\ player' = [player EXCEPT !.animations[clip].position = @ + 1]
    /\ IF clip \in Clips /\ player.animations[clip].position + 1 = SignalFrame
       THEN /\ Len(events[clip]) < MaxQueue
            /\ events' = [events EXCEPT ![clip] = Append(@, SignalOf(clip))]
       ELSE events' = events
    /\ outbox' = <<>>
    /\ can_shoot_result' = NoQuery
    /\ op' = "animation"
    /\ pre' = Snapshot
    /\ UNCHANGED <<weapons, elapsed, shot_log>>
    /\ UNCHANGED <<upper_active_state, tally>>
    /\ UNCHANGED ray_vars
    /\ UNCHANGED ext_vars

\* The player takes lethal damage (Character::damage from another system).
Kill ==
    /\ ~is_dead(player)
    /\ player' = [player EXCEPT !.health = 0]
    /\ outbox' = <<>>
    /\ can_shoot_result' = NoQuery
    /\ op' = "kill"
    /\ pre' = Snapshot
    /\ UNCHANGED <<weapons, elapsed, shot_log>>
    /\ UNCHANGED <<events, upper_active_state, tally>>
    /\ UNCHANGED ray_vars
    /\ UNCHANGED ext_vars

\* The player and the things of the level move between two updates: the
\* distances, floors and items the next update finds are those of lvl.
LevelMoves(lvl) ==
    /\ lvl # level
    /\ level' = lvl
    /\ outbox' = <<>>
    /\ can_shoot_result' = NoQuery
    /\ op' = "level"
    /\ pre' = Snapshot
    /\ UNCHANGED <<weapons, elapsed, shot_log>>
    /\ UNCHANGED <<player, events, upper_active_state, tally>>
    /\ UNCHANGED ray_vars
    /\ UNCHANGED <<container, issued, trails, trail_log, model_angle, frame>>

\* The handles a pool of at most MaxWeapons spawns can give out.
PoolHandles == [index : 1 .. MaxWeapons, generation : 1 .. MaxWeapons]

\* ShotTrailContainer::add of a trail on a new scene node.
TrailAdd(max_lifetime) ==
    /\ Len(trail_log) < MaxTrails
    /\ trails' = trails_add(trails, new_trail(Len(trail_log) + 1, max_lifetime))
    /\ trail_log' = Append(trail_log, [age |-> 0, removals |-> 0,
                                       max_lifetime |-> max_lifetime])
    /\ outbox' = <<>>
    /\ can_shoot_result' = NoQuery
    /\ op' = "trail_add"
    /\ pre' = Snapshot
    /\ UNCHANGED <<weapons, elapsed, shot_log>>
    /\ UNCHANGED <<player, events, upper_active_state, tally>>
    /\ UNCHANGED ray_vars
    /\ UNCHANGED <<container, issued, model_angle, level, frame>>

\* ShotTrailContainer::update(dt).  The log adds dt to the age of every
\* trail that was in the container and counts the remove_node calls.
TrailUpdate(dt) ==
    /\ LET r == trails_update(trails, dt)
       IN  /\ trails' = r.container
           /\ trail_log' =
                [n \in DOMAIN trail_log |->
                    [age |-> trail_log[n].age
                                + (IF \E i \in DOMAIN trails : trails[i].node = n
                                   THEN dt ELSE 0),
                     removals |-> trail_log[n].removals
                                + Cardinality({i \in DOMAIN r.removed : r.removed[i].node = n}),
                     max_lifetime |-> trail_log[n].max_lifetime]]
    /\ outbox' = <<>>
    /\ can_shoot_result' = NoQuery
    /\ op' = "trail_update"
    /\ pre' = Snapshot
    /\ UNCHANGED <<weapons, elapsed, shot_log>>
    /\ UNCHANGED <<player, events, upper_active_state, tally>>
    /\ UNCHANGED ray_vars
    /\ UNCHANGED <<container, issued, model_angle, level, frame>>

\* WeaponContainer::free on a weapon of the container (its actor is removed
\* from the level, or the weapon is dropped).
WeaponFree(w) ==
    /\ ~weapons[w].free
    /\ weapons' = [weapons EXCEPT ![w] = FREE]
    /\ outbox' = <<>>
    /\ can_shoot_result' = NoQuery
    /\ op' = "weapon_free"
    /\ pre' = Snapshot
    /\ UNCHANGED <<elapsed, shot_log>>
    /\ UNCHANGED <<player, events, upper_active_state, tally>>
    /\ UNCHANGED ray_vars
    /\ UNCHANGED ext_vars

\* WeaponContainer::add of a new weapon; the handle returned is recorded.
ContainerAdd ==
    /\ Cardinality(issued) < MaxWeapons
    /\ LET r == container_add(container, Cardinality(issued) + 1)
       IN  /\ container' = r.pool
           /\ issued' = issued \cup {[handle |-> r.handle,
                                       weapon |-> Cardinality(issued) + 1,
                                       freed |-> FALSE]}
    /\ outbox' = <<>>
    /\ can_shoot_result' = NoQuery
    /\ op' = "add"
    /\ pre' = Snapshot
    /\ UNCHANGED <<weapons, elapsed, shot_log>>
    /\ UNCHANGED <<player, events, upper_active_state, tally>>
    /\ UNCHANGED ray_vars
    /\ UNCHANGED <<trails, trail_log, model_angle, level, frame>>

\* WeaponContainer::free of a weapon that is in the container.
ContainerFree(h) ==
    /\ \E t \in issued :
        /\ t.handle = h
        /\ ~t.freed
        /\ issued' = (issued \ {t}) \cup {[t EXCEPT !.freed = TRUE]}
    /\ container' = container_free(container, h)
    /\ outbox' = <<>>
    /\ can_shoot_result' = NoQuery
    /\ op' = "free"
    /\ pre' = Snapshot
    /\ UNCHANGED <<weapons, elapsed, shot_log>>
    /\ UNCHANGED <<player, events, upper_active_state, tally>>
    /\ UNCHANGED ray_vars
    /\ UNCHANGED <<trails, trail_log, model_angle, level, frame>>

\* Player::process_input_event with a button that sets a controller flag.
InputFlag(button, pressed) ==
    /\ player' = input_flag(player, button, pressed)
    /\ model_angle' = NoAngle
    /\ tally' = IF button = "action" /\ pressed
                THEN [tally EXCEPT !.picked = 0, !.called = 0, !.pushed = 0]
                ELSE tally
    /\ outbox' = <<>>
    /\ can_shoot_result' = NoQuery
    /\ op' = "input"
    /\ pre' = [Snapshot EXCEPT !.input = [button |-> button, pressed |-> pressed]]
    /\ UNCHANGED <<weapons, elapsed, shot_log>>
    /\ UNCHANGED <<events, upper_active_state>>
    /\ UNCHANGED ray_vars
    /\ UNCHANGED <<container, issued, trails, trail_log, level, frame>>

\* Player::process_input_event with the inventory or the journal button.
InputDisplay(button, pressed) ==
    /\ \E r \in {input_display(player, button, pressed)} :
          /\ player' = r.player
          /\ outbox' = r.msgs
    /\ can_shoot_result' = NoQuery
    /\ op' = "input"
    /\ pre' = [Snapshot EXCEPT !.input = [button |-> button, pressed |-> pressed]]
    /\ UNCHANGED <<weapons, elapsed, shot_log>>
    /\ UNCHANGED <<events, upper_active_state, tally>>
    /\ UNCHANGED ray_vars
    /\ UNCHANGED ext_vars

\* Player::process_input_event with a mouse motion.
InputMouseMotion(dx, dy, mouse_y_inverse) ==
    /\ Abs(player.controller.yaw - dx * MouseSens) <= MaxYaw
    /\ player' = input_mouse_motion(player, dx, dy, mouse_y_inverse)
    /\ outbox' = <<>>
    /\ can_shoot_result' = NoQuery
    /\ op' = "mouse"
    /\ pre' = [Snapshot EXCEPT !.motion = [dx |-> dx, dy |-> dy,
                                           mouse_y_inverse |-> mouse_y_inverse]]
    /\ UNCHANGED <<weapons, elapsed, shot_log>>
    /\ UNCHANGED <<events, upper_active_state, tally>>
    /\ UNCHANGED ray_vars
    /\ UNCHANGED ext_vars

\* Player::calculate_model_angle is called on the controller as it is.
CalculateModelAngle ==
    /\ model_angle' = [computed |-> TRUE, value |-> calculate_model_angle(player.controller)]
    /\ outbox' = <<>>
    /\ can_shoot_result' = NoQuery
    /\ op' = "model_angle"
    /\ pre' = Snapshot
    /\ UNCHANGED <<weapons, elapsed, shot_log>>
    /\ UNCHANGED <<player, events, upper_active_state, tally>>
    /\ UNCHANGED ray_vars
    /\ UNCHANGED <<container, issued, trails, trail_log, level, frame>>

\* The player takes `amount` of damage (Character::damage from another
\* system) and survives it.
Damage(amount) ==
    /\ 100 - (player.health - amount) <= MaxDamageTaken
    /\ player' = [player EXCEPT !.health = @ - amount]
    /\ outbox' = <<>>
    /\ can_shoot_result' = NoQuery
    /\ op' = "damage"
    /\ pre' = Snapshot
    /\ UNCHANGED <<weapons, elapsed, shot_log>>
    /\ UNCHANGED <<events, upper_active_state, tally>>
    /\ UNCHANGED ray_vars
    /\ UNCHANGED ext_vars

\* The animation runtime plays an enabled hit-reaction clip.
HitReactionPlays(clip) ==
    /\ player.hit_reaction[clip].enabled
    /\ player.hit_reaction[clip].position = 0
    /\ player' = [player EXCEPT !.hit_reaction[clip].position = 1]
    /\ outbox' = <<>>
    /\ can_shoot_result' = NoQuery
    /\ op' = "animation"
    /\ pre' = Snapshot
    /\ UNCHANGED <<weapons, elapsed, shot_log>>
    /\ UNCHANGED <<events, upper_active_state, tally>>
    /\ UNCHANGED ray_vars
    /\ UNCHANGED ext_vars

\* One signal handler of Player::update run on its own: handle_jump_signal,
\* handle_weapon_grab_signal, handle_put_back_weapon_end_signal or
\* handle_toss_grenade_signal.  The jump handler only computes a velocity and
\* the put-back handler only enables the grab clip.
handle_signal(clip, p, queue, self_handle, short) ==
    CASE clip = "grab" -> handle_weapon_grab_signal(p, queue, self_handle)
      [] clip = "toss_grenade" -> handle_toss_grenade_signal(p, queue, self_handle, short)
      [] clip = "put_back" ->
            [player |-> handle_put_back_weapon_end_signal(p, queue), msgs |-> <<>>]
      [] OTHER -> [player |-> p, msgs |-> <<>>]

HandleSignal(clip) ==
    \E short \in 0 .. 1 :
      \E r \in {handle_signal(clip, player, events[clip], PlayerHandle, short)} :
            /\ player' = r.player
            /\ events' = [events EXCEPT ![clip] = pop_events(@)]
            /\ outbox' = r.msgs
            /\ tally' = tally_after(r)
            /\ can_shoot_result' = NoQuery
            /\ op' = clip
            /\ pre' = [Snapshot EXCEPT !.repeated = (op = clip)]
            /\ UNCHANGED <<weapons, elapsed, shot_log, upper_active_state>>
            /\ UNCHANGED ray_vars
            /\ UNCHANGED ext_vars

\* The random numbers an update can draw: the random source is read only by
\* gen_v_recoil_angle and gen_h_recoil_angle, on a successful shot.
Seeds(r) == IF CountTag(r.msgs, "ShootWeapon") > 0 THEN 0 .. MaxSeed ELSE {0}

\* Player::update of one frame of FrameDelta, in surroundings drawn from envs:
\* the two machines as the update finds them and has_ground_contact.
PlayerFrameWithin(envs, max_air_time) ==
    \E short \in 0 .. 1, env \in envs :
      \E unseeded \in {update(player, weapons, elapsed, events, env.upper, short,
                               PlayerHandle, 0, 0, env, level)} :
      \E v_seed \in Seeds(unseeded), h_seed \in Seeds(unseeded) :
      \E r \in {IF v_seed = 0 /\ h_seed = 0
                 THEN unseeded
                 ELSE update(player, weapons, elapsed, events, env.upper, short,
                             PlayerHandle, v_seed, h_seed, env, level)} :
            /\ env.ground \/ player.in_air_time + FrameDelta <= max_air_time
            /\ player' = r.player
            /\ events' = r.events
            /\ outbox' = r.msgs
            /\ upper_active_state' = env.upper
            /\ frame' = [lower |-> env.lower, ground |-> env.ground, machines |-> r.machines]
            /\ tally' = tally_after(r)
            /\ can_shoot_result' = NoQuery
            /\ op' = IF r.panicked THEN "panic" ELSE "update"
            /\ pre' = Snapshot
            /\ UNCHANGED <<weapons, elapsed, shot_log>>
            /\ UNCHANGED ray_vars
            /\ UNCHANGED <<container, issued, trails, trail_log, model_angle, level>>

PlayerFrame(envs) == PlayerFrameWithin(envs, MaxAirTime)

\* The player stands on the ground, its lower body machine at rest.
OnTheGround == [lower : {Standing}, ground : {TRUE}, upper : UpperStates]

\* Player::update of one frame of a player standing on the ground.
PlayerUpdate == PlayerFrame(OnTheGround)

(***************************************************************************)
(* Cooldown of one weapon: the clock, Weapon::shoot and Weapon::can_shoot.  *)
(***************************************************************************)
\* The scenes and directions a shot is made with: a weapon with or without
\* a shot point, a model scaled along its look vector, and directions that
\* are missing, zero, shorter and longer than one, along and across the axes.
Scenes ==
    {AtRest,
     [shot_point |-> [some |-> TRUE, position |-> Vector3(10, 20, -30)],
      model |-> [position |-> Vector3(10, 20, 0), look |-> Vector3(-20, 0, 0)]]}

Directions ==
    {LookAhead} \cup
    {[some |-> TRUE, value |-> v] :
        v \in {Vector3(0, 0, 0), Vector3(0, -1, 0), Vector3(30, 40, 0), Vector3(0, 0, 10)}}

InitWeapon ==
    /\ RayIdle
    /\ ExtIdle
    /\ PlayerIdle
    /\ \E k \in WeaponKinds :
        weapons = [w \in WeaponHandles |-> IF w = 1 THEN new_weapon(k) ELSE FREE]
    /\ elapsed = 0
    /\ outbox = <<>>
    /\ can_shoot_result = NoQuery
    /\ shot_log = [w \in WeaponHandles |-> -1]

NextWeapon ==
    \/ Tick(1)
    \/ \E w \in WeaponHandles, scene \in Scenes, direction \in Directions :
          WeaponShoot(w, scene, direction)
    \/ \E w \in WeaponHandles : CanShoot(w)

SpecWeapon == InitWeapon /\ [][NextWeapon]_vars

(***************************************************************************)
(* Fire control: a Glock and an M4 in the hands of a player created with    *)
(* some ammo, driven by the shoot button, the clock, the processing of      *)
(* ShootWeapon messages (Weapon::shoot) and lethal damage.                  *)
(***************************************************************************)
ArmedPlayer(ammo, grenades, cw) ==
    [IdlePlayer EXCEPT !.inventory = [Ammo |-> ammo, Grenade |-> grenades],
                       !.weapons = <<1, 2>>,
                       !.current_weapon = cw]

BothWeapons == {<<1, 2>>}

InitRestored(ammos, grenades, levels, hands, tallies, healths) ==
    /\ RayIdle
    /\ ExtIdleOn(levels)
    /\ weapons = [w \in WeaponHandles |->
                    [new_weapon(IF w = 1 THEN "Glock" ELSE "M4") EXCEPT !.owner = PlayerHandle]]
    /\ elapsed = 0
    /\ outbox = <<>>
    /\ can_shoot_result = NoQuery
    /\ shot_log = [w \in WeaponHandles |-> -1]
    /\ \E a \in ammos, g \in grenades, cw \in 0 .. 1, held \in hands, h \in healths :
          player = [ArmedPlayer(a, g, cw) EXCEPT !.weapons = held, !.health = h]
    /\ events = NoEvents
    /\ upper_active_state = "other_state"
    /\ pre = [player |-> player, events |-> events, repeated |-> FALSE,
             motion |-> NoMotion, input |-> NoInput, shot |-> NoShot]
    /\ op = "init"
    /\ tally \in tallies

\* Player::new without persistent data: the health is that of IdlePlayer.
InitHolding(ammos, grenades, levels, hands, tallies) ==
    InitRestored(ammos, grenades, levels, hands, tallies, {IdlePlayer.health})

InitArmedOn(ammos, grenades, levels) ==
    InitHolding(ammos, grenades, levels, BothWeapons, {NoTally})

InitArmed(ammos, grenades) == InitArmedOn(ammos, grenades, {EmptyLevel})

Init == InitArmed(0 .. MaxAmmo, {0})

Next ==
    \/ Tick(FrameDelta)
    \/ \E w \in WeaponHandles : WeaponShoot(w, AtRest, LookAhead)
    \/ \E b \in BOOLEAN : InputShoot(b)
    \/ Kill
    \/ PlayerUpdate

Spec == Init /\ [][Next]_vars

(***************************************************************************)
(* Grenades: the same player created with some grenades, driven by the      *)
(* toss_grenade button, the events the animation runtime queues and lethal  *)
(* damage.                                                                  *)
(***************************************************************************)
InitGrenade == InitArmed({0}, 0 .. MaxGrenades)

\* The clips whose events decide what the grenade handler finds: the grab
\* handler runs before it in the same update.
GrenadeClips == {"grab", "toss_grenade"}

NextGrenade ==
    \/ \E c \in GrenadeClips : AnimationSignal(c)
    \/ \E b \in BOOLEAN : InputTossGrenade(b)
    \/ Kill
    \/ PlayerUpdate

SpecGrenade == InitGrenade /\ [][NextGrenade]_vars

(***************************************************************************)
(* Shot trails: trails are added and the container is updated every frame;  *)
(* the frames with dt > 0 keep coming.                                      *)
(***************************************************************************)
InitTrail == WeaponsIdle /\ RayIdle /\ PlayerIdle /\ ExtIdle

TrailUpdatePositive == \E dt \in 1 .. MaxDt : TrailUpdate(dt)

NextTrail ==
    \/ \E m \in 1 .. MaxLifetime : TrailAdd(m)
    \/ TrailUpdate(0)
    \/ TrailUpdatePositive

SpecTrail == InitTrail /\ [][NextTrail]_vars /\ WF_vars(TrailUpdatePositive)

(***************************************************************************)
(* Stale handles: the weapons of the player may be freed from the container *)
(* while the player still lists their handles.                              *)
(***************************************************************************)
InitStale == InitArmed(0 .. 1, {0})

NextStale ==
    \/ \E w \in WeaponHandles : WeaponFree(w)
    \/ \E b \in BOOLEAN : InputShoot(b)
    \/ Tick(FrameDelta)
    \/ PlayerUpdate

SpecStale == InitStale /\ [][NextStale]_vars

(***************************************************************************)
(* WeaponContainer: weapons are added and freed in any order.               *)
(***************************************************************************)
InitContainer == WeaponsIdle /\ RayIdle /\ PlayerIdle /\ ExtIdle

NextContainer ==
    \/ ContainerAdd
    \/ \E h \in PoolHandles : ContainerFree(h)

SpecContainer == InitContainer /\ [][NextContainer]_vars

(***************************************************************************)
(* Model angle: the flag buttons are pressed and released in any order and  *)
(* calculate_model_angle is called on any of the 32 flag combinations.      *)
(***************************************************************************)
InitAngle == InitArmed({0}, {0})

NextAngle ==
    \/ \E b \in FlagButtons, pressed \in BOOLEAN : InputFlag(b, pressed)
    \/ CalculateModelAngle

SpecAngle == InitAngle /\ [][NextAngle]_vars

(***************************************************************************)
(* Look: mouse motions with either setting of mouse_y_inverse, and button   *)
(* events in between.                                                       *)
(***************************************************************************)
InitLook == InitArmed({0}, {0})

NextLook ==
    \/ \E dx \in MouseDeltas, dy \in MouseDeltas, inv \in BOOLEAN : InputMouseMotion(dx, dy, inv)
    \/ \E pressed \in BOOLEAN : InputFlag("aim", pressed)
    \/ \E pressed \in BOOLEAN : InputShoot(pressed)

SpecLook == InitLook /\ [][NextLook]_vars

(***************************************************************************)
(* Stun: the player is damaged, updated, and its hit-reaction clips play.   *)
(***************************************************************************)
InitStun == InitArmed({0}, {0})

NextStun ==
    \/ \E a \in DamageAmounts : Damage(a)
    \/ \E c \in HitReactionClips : HitReactionPlays(c)
    \/ Kill
    \/ PlayerUpdate

SpecStun == InitStun /\ [][NextStun]_vars

(***************************************************************************)
(* Signal queues: the four clips queue events, the handlers run on their    *)
(* own or inside Player::update, the player may die.                        *)
(***************************************************************************)
InitSignals == InitArmed({0}, {1})

NextSignals ==
    \/ \E c \in Clips : AnimationSignal(c)
    \/ \E c \in Clips : HandleSignal(c)
    \/ Kill
    \/ PlayerUpdate

SpecSignals == InitSignals /\ [][NextSignals]_vars

(***************************************************************************)
(* Weapon change: the player holding a Glock and an M4 asks for another     *)
(* weapon, the put-back and grab clips play and queue their signals, the    *)
(* grab handler runs on its own or inside Player::update.                   *)
(***************************************************************************)
InitChange == InitArmed({0}, {0})

ChangeClips == {"put_back", "grab"}

NextChange ==
    \/ \E b \in ChangeButtons, pressed \in BOOLEAN : InputWeaponChange(b, pressed)
    \/ \E c \in ChangeClips : AnimationPlays(c)
    \/ AnimationSignal("grab")
    \/ HandleSignal("grab")
    \/ PlayerUpdate

SpecChange == InitChange /\ [][NextChange]_vars

\* The same, for a player that holds one weapon or two.
InitAccept == InitHolding({0}, {0}, {EmptyLevel}, {<<1>>, <<1, 2>>}, {NoTally})

NextAccept ==
    \/ \E b \in ChangeButtons, pressed \in BOOLEAN : InputWeaponChange(b, pressed)
    \/ \E c \in ChangeClips : AnimationPlays(c)
    \/ HandleSignal("grab")
    \/ PlayerUpdate

SpecAccept == InitAccept /\ [][NextAccept]_vars

(***************************************************************************)
(* Jump: the jump clip of the lower body machine queues its signal, gravity *)
(* pulls the body, the player may die, and the updates find the lower body  *)
(* machine in any state and transition.                                     *)
(***************************************************************************)
InitJump == InitArmed({0}, {0})

JumpEnvs ==
    [lower : {l \in LowerPoses : ~l.stunned}, ground : {TRUE}, upper : {"other_state"}]

NextJump ==
    \/ AnimationSignal("jump")
    \/ \E y \in FallSpeeds : PhysicsStep(y, 0)
    \/ Kill
    \/ PlayerFrame(JumpEnvs)

SpecJump == InitJump /\ [][NextJump]_vars

(***************************************************************************)
(* Toss: a player with one grenade; the toss_grenade and jump buttons are   *)
(* pressed and released while the toss-grenade clip and the jump clip play  *)
(* and the player is updated.                                               *)
(***************************************************************************)
InitToss == InitArmed({0}, {1})

TossClips == {"toss_grenade", "jump"}

NextToss ==
    \/ \E pressed \in BOOLEAN : InputTossGrenade(pressed)
    \/ \E pressed \in BOOLEAN : InputJump(pressed)
    \/ \E c \in TossClips : AnimationPlays(c)
    \/ PlayerUpdate

SpecToss == InitToss /\ [][NextToss]_vars

(***************************************************************************)
(* Turning: the player aims, walks forward and looks around with the mouse; *)
(* the updates find the lower body machine standing, falling or landing;    *)
(* the player may die.                                                      *)
(***************************************************************************)
InitTurn == InitArmed({0}, {0}) /\ player.current_weapon = 0

TurnButtons == {"aim", "move_forward"}

Falling == [Standing EXCEPT !.state = "fall_state"]

Landing == [Standing EXCEPT !.state = "land_state"]

TurnEnvs ==
    [lower : {Standing, Falling, Landing}, ground : {TRUE}, upper : {"other_state"}]

NextTurn ==
    \/ \E b \in TurnButtons, pressed \in BOOLEAN : InputFlag(b, pressed)
    \/ \E dx \in {-MaxMouseDelta, MaxMouseDelta} : InputMouseMotion(dx, 0, FALSE)
    \/ Kill
    \/ PlayerFrame(TurnEnvs)

SpecTurn == InitTurn /\ [][NextTurn]_vars

(***************************************************************************)
(* Death: the player walks and runs, on the ground or in the air, looks to  *)
(* one side, its body is pulled down and spun by the physics, and it dies.  *)
(***************************************************************************)
InitDeath == InitArmed({0}, {0}) /\ player.current_weapon = 0

DeathButtons == {"move_forward", "run"}

DeathEnvs == [lower : {Standing}, ground : BOOLEAN, upper : {"other_state"}]

NextDeath ==
    \/ \E b \in DeathButtons, pressed \in BOOLEAN : InputFlag(b, pressed)
    \/ InputMouseMotion(MaxMouseDelta, 0, FALSE)
    \/ PhysicsStep(-2, 1)
    \/ Kill
    \/ PlayerFrame(DeathEnvs)

SpecDeath == InitDeath /\ [][NextDeath]_vars

(***************************************************************************)
(* Aiming: the player holds two weapons and ammo for a shot or two; the     *)
(* aim and shoot buttons are pressed and released while the upper body      *)
(* machine enters and leaves its aim state on its own schedule.             *)
(***************************************************************************)
InitAim == InitArmed({2}, {0})

NextAim ==
    \/ Tick(FrameDelta)
    \/ \E b \in BOOLEAN : InputShoot(b)
    \/ \E b \in BOOLEAN : InputFlag("aim", b)
    \/ Kill
    \/ PlayerUpdate

SpecAim == InitAim /\ [][NextAim]_vars

(***************************************************************************)
(* Displays: the inventory, journal, aim, run and action buttons are        *)
(* pressed and released in any order.                                       *)
(***************************************************************************)
InitDisplay == InitArmed({0}, {0}) /\ player.current_weapon = 0

HeldButtons == {"aim", "run", "action"}

NextDisplay ==
    \/ \E b \in HeldButtons, pressed \in BOOLEAN : InputFlag(b, pressed)
    \/ \E b \in DisplayButtons, pressed \in BOOLEAN : InputDisplay(b, pressed)

SpecDisplay == InitDisplay /\ [][NextDisplay]_vars

(***************************************************************************)
(* Volleys: the shoot button is pressed and released while the clock runs;  *)
(* a ShootWeapon message the player has sent is handed to Weapon::shoot     *)
(* before the clock moves on and before the next update.                    *)
(***************************************************************************)
InitVolley ==
    InitHolding({MaxAmmo}, {0}, {EmptyLevel}, BothWeapons, {[NoTally EXCEPT !.volley = VolleyStart]})

ShotPending == op = "update" /\ CountTag(outbox, "ShootWeapon") > 0

ClockTick == ~ShotPending /\ Tick(1)

TriggerEvent == \E b \in BOOLEAN : ~ShotPending /\ InputShoot(b)

NextUpdate == ~ShotPending /\ PlayerUpdate

DeliverShot ==
    \E w \in WeaponHandles :
        /\ op = "update"
        /\ AskedToShoot(outbox, w)
        /\ WeaponShoot(w, AtRest, LookAhead)

NextVolley ==
    \/ ClockTick
    \/ TriggerEvent
    \/ NextUpdate
    \/ DeliverShot

SpecVolley == InitVolley /\ [][NextVolley]_vars

(***************************************************************************)
(* Landing: the lower body machine is in its land state and plays the       *)
(* landing clips while the player loses and regains the ground for up to    *)
(* MaxHop hundredths of a second, less than the machines take to notice.    *)
(***************************************************************************)
MaxHop == 10

LandClips == {"lower_land", "upper_land"}

LandEnvs == [lower : {Landing}, ground : BOOLEAN, upper : {"other_state"}]

InitLand == InitArmed({0}, {0}) /\ player.current_weapon = 0

NextLand ==
    \/ \E clip \in LandClips : AnimationPlays(clip)
    \/ PlayerFrameWithin(LandEnvs, MaxHop)

SpecLand == InitLand /\ [][NextLand]_vars

(***************************************************************************)
(* Items: two items lie on the level, each just inside or just outside the  *)
(* interaction range, next to an elevator the player may stand in; the      *)
(* action button is pressed and released and the player moves about.        *)
(***************************************************************************)
Distances == {InteractRange - 1, InteractRange}

NoCallButtons == <<>>

ItemLevels ==
    {[items |-> <<[kind |-> "Ammo", stack_size |-> 1, distance |-> d1],
                  [kind |-> "Grenade", stack_size |-> 2, distance |-> d2]>>,
      elevators |-> <<[distance |-> d3, points |-> 2, current_floor |-> 0,
                       call_buttons |-> NoCallButtons]>>] : d1, d2, d3 \in Distances}

InitInteract == InitArmedOn({0}, {0}, ItemLevels) /\ player.current_weapon = 0

NextInteract ==
    \/ \E pressed \in BOOLEAN : InputFlag("action", pressed)
    \/ \E lvl \in ItemLevels : LevelMoves(lvl)
    \/ Kill
    \/ PlayerUpdate

SpecInteract == InitInteract /\ [][NextInteract]_vars

(***************************************************************************)
(* Elevators: the player stands near an elevator of three floors and one of *)
(* its call buttons, each just inside or just outside the interaction       *)
(* range, and presses and releases the action and cursor buttons.           *)
(***************************************************************************)
ElevatorLevels ==
    {[items |-> <<>>,
      elevators |-> <<[distance |-> d1, points |-> 3, current_floor |-> f,
                       call_buttons |-> <<[handle |-> 1, kind |-> k, floor |-> 1,
                                           distance |-> d2]>>]>>] :
        d1, d2 \in Distances, f \in 0 .. 2, k \in {"FloorSelector", "EndPoint"}}

ElevatorButtons == {"action", "cursor_up", "cursor_down"}

InitElevator == InitArmedOn({0}, {0}, ElevatorLevels) /\ player.current_weapon = 0

NextElevator ==
    \/ \E b \in ElevatorButtons, pressed \in BOOLEAN : InputFlag(b, pressed)
    \/ Kill
    \/ PlayerUpdate

SpecElevator == InitElevator /\ [][NextElevator]_vars

(***************************************************************************)
(* Wounds: a player created with full health or with the health of its      *)
(* persistent data is damaged between its updates while the hit-reaction    *)
(* clips play.                                                              *)
(***************************************************************************)
RestoredHealths == {IdlePlayer.health, IdlePlayer.health - 20}

InitWounds ==
    /\ InitRestored({0}, {0}, {EmptyLevel}, BothWeapons,
                    {[NoTally EXCEPT !.seen = SeenAt(h)] : h \in RestoredHealths},
                    RestoredHealths)
    /\ tally.seen.now = player.health
    /\ player.current_weapon = 0

NextWounds ==
    \/ \E a \in DamageAmounts : Damage(a)
    \/ \E c \in HitReactionClips : HitReactionPlays(c)
    \/ PlayerUpdate

SpecWounds == InitWounds /\ [][NextWounds]_vars

(***************************************************************************)
(* The grave: a player with ammo, a grenade and two weapons stands within   *)
(* reach of an elevator and its call button, an item within reach or just   *)
(* out of it; the upper body machine is in its aim state; the shoot and     *)
(* action buttons are pressed, the grab and toss signals are queued, the    *)
(* rifle is asked for, time passes, and the player dies.                    *)
(***************************************************************************)
GraveLevels ==
    {[items |-> <<[kind |-> "Ammo", stack_size |-> 1, distance |-> d]>>,
      elevators |-> <<[distance |-> InteractRange - 1, points |-> 2, current_floor |-> 0,
                       call_buttons |-> <<[handle |-> 1, kind |-> "EndPoint", floor |-> 1,
                                           distance |-> InteractRange - 1]>>]>>] :
        d \in Distances}

InitGrave ==
    /\ InitHolding({definition("Glock").ammo_consumption_per_shot}, {1}, GraveLevels, BothWeapons, {NoTally})
    /\ player.current_weapon = 0

GraveClips == {"grab", "toss_grenade"}

\* The signal of a clip is queued while no signal of that clip is pending.
FirstSignal(clip) == events[clip] = <<>> /\ AnimationSignal(clip)

GraveEnvs == [lower : {Standing}, ground : {TRUE}, upper : {"aim_state"}]

NextGrave ==
    \/ InputFlag("action", TRUE)
    \/ InputShoot(TRUE)
    \/ InputWeaponChange("grab_m4", TRUE)
    \/ \E c \in GraveClips : FirstSignal(c)
    \/ Tick(2 * FrameDelta)
    \/ Kill
    \/ PlayerFrame(GraveEnvs)

SpecGrave == InitGrave /\ [][NextGrave]_vars

(***************************************************************************)
(* Specification of one ray_hit call over all bounded inputs.               *)
(***************************************************************************)
\* ray_hit reads the pool only at the shooter's weapon handle: the other
\* slots are left free.
PoolsFor(s) ==
    IF s.tag = "Weapon"
    THEN {p \in RayPools : \A w \in WeaponHandles : w # s.handle => p[w] = FREE}
    ELSE {[w \in WeaponHandles |-> FREE]}

InitRay ==
    /\ WeaponsIdle
    /\ ExtIdle
    /\ PlayerIdle
    /\ \E s \in Shooters, o \in [Colliders -> {NONE} \cup ActorHandles],
          b \in QueryBuffers, i \in {NONE} \cup Colliders :
            \E p \in PoolsFor(s) :
                ray_args = [shooter |-> s, pool |-> p, owner |-> o, buf |-> b,
                            ignored_collider |-> i]
    /\ ray_result = Pending

RayHit ==
    /\ ray_result = Pending
    /\ ray_result' = ray_hit(ray_args.shooter, ray_args.pool, ActorsOf(ray_args.owner),
                             ray_args.buf, ray_args.ignored_collider)
    /\ UNCHANGED ray_args
    /\ UNCHANGED <<weapons, elapsed, outbox, can_shoot_result, shot_log>>
    /\ UNCHANGED <<player, events, upper_active_state, pre, op, tally>>
    /\ UNCHANGED ext_vars

NextRay == RayHit

SpecRay == InitRay /\ [][NextRay]_vars

(***************************************************************************)
(* Claims about ray_hit, stated over the arguments and the result of the    *)
(* call.                                                                    *)
(***************************************************************************)
RayReturned == ray_result.tag = "Some"
RayHitValue == ray_result.value

\* Indices of the intersections whose collider is not the ignored one.
NotIgnoredIdx ==
    {i \in 1 .. Len(ray_args.buf) : ray_args.buf[i].collider # ray_args.ignored_collider}

HasNearest == ray_result # Pending /\ NotIgnoredIdx # {}
Nearest == ray_args.buf[CHOOSE i \in NotIgnoredIdx : \A j \in NotIgnoredIdx : i <= j]

\* The actor a collider is a hit box of (NONE when it is level geometry).
BoxActor(c) == ray_args.owner[c]

\* The shooter's weapon handle no longer resolves in the WeaponContainer.
StaleShooter ==
    ray_args.shooter.tag = "Weapon" /\ ray_args.pool[ray_args.shooter.handle].free

\* The actor that owns the shot.
ShooterActor ==
    CASE ray_args.shooter.tag = "Actor" -> ray_args.shooter.handle
      [] ray_args.shooter.tag = "Weapon" -> ray_args.pool[ray_args.shooter.handle].owner
      [] OTHER -> NONE

\* C1: a Hit that names an actor never names that same actor as the one who
\* fired (hit.actor # NONE => hit.who # hit.actor), for every shooter.
C1_NoSelfAttribution ==
    RayReturned /\ RayHitValue.actor # NONE => RayHitValue.who # RayHitValue.actor

\* C1 witness: a weapon owned by one actor hits a hit box of another actor.
C1_Witness ==
    /\ RayReturned
    /\ RayHitValue.actor # NONE
    /\ RayHitValue.who # NONE
    /\ ray_args.shooter.tag = "Weapon"

\* C2: hit.actor is set exactly when hit.hit_box is Some; the hit box then has
\* the collider of the hit and is one of the hit boxes of hit.actor.
C2_ActorIffHitBox ==
    RayReturned =>
        /\ (RayHitValue.actor # NONE) <=> ~RayHitValue.hit_box.none
        /\ RayHitValue.actor # NONE =>
            /\ RayHitValue.hit_box.box.collider = RayHitValue.collider
            /\ RayHitValue.actor \in ActorHandles
            /\ \E k \in DOMAIN ActorsOf(ray_args.owner)[RayHitValue.actor].hit_boxes :
                 ActorsOf(ray_args.owner)[RayHitValue.actor].hit_boxes[k]
                    = RayHitValue.hit_box.box

\* C2 witness: a Hit with an actor and its hit box was returned.
C2_Witness ==
    RayReturned /\ RayHitValue.actor # NONE /\ ~RayHitValue.hit_box.none

\* C3: no intersection other than the ignored collider => None; a returned Hit
\* carries collider, position and normal of the nearest non-ignored
\* intersection.
C3_NearestNotIgnored ==
    /\ (ray_result # Pending /\ NotIgnoredIdx = {}) => ray_result.tag = "None"
    /\ RayReturned =>
        /\ NotIgnoredIdx # {}
        /\ RayHitValue.collider = Nearest.collider
        /\ RayHitValue.position = Nearest.position
        /\ RayHitValue.normal = Nearest.normal

\* C3 witness: the ignored collider is nearest, something else lies behind it
\* and a Hit is returned.
C3_Witness ==
    /\ RayReturned
    /\ Len(ray_args.buf) >= 2
    /\ ray_args.buf[1].collider = ray_args.ignored_collider
    /\ RayHitValue.position = ray_args.buf[2].position

\* C4: the nearest non-ignored collider is a hit box of an actor A other than
\* the shooter's owning actor (shooter handle resolving) => Some(Hit) with
\* actor = A, hit_box = that hit box, who = the shooter's owning actor.
C4_ActorHit ==
    (/\ HasNearest
     /\ ~StaleShooter
     /\ BoxActor(Nearest.collider) # NONE
     /\ BoxActor(Nearest.collider) # ShooterActor)
    => /\ RayReturned
       /\ RayHitValue.actor = BoxActor(Nearest.collider)
       /\ RayHitValue.hit_box = SomeBox(HitBox(Nearest.collider))
       /\ RayHitValue.who = ShooterActor

\* C4 witness: a weapon with an owner hits another actor's hit box.
C4_Witness ==
    /\ HasNearest
    /\ ray_args.shooter.tag = "Weapon"
    /\ ~StaleShooter
    /\ ShooterActor # NONE
    /\ BoxActor(Nearest.collider) \notin {NONE, ShooterActor}
    /\ RayReturned

\* C5: the nearest non-ignored collider is a hit box of the shooter's own
\* actor => None, whatever lies farther along the ray.
C5_OwnHitBoxTransparent ==
    (/\ HasNearest
     /\ ~StaleShooter
     /\ BoxActor(Nearest.collider) # NONE
     /\ BoxActor(Nearest.collider) = ShooterActor)
    => ray_result.tag = "None"

\* C5 witness: own hit box nearest, level geometry behind it, result None.
C5_Witness ==
    /\ HasNearest
    /\ ShooterActor # NONE
    /\ BoxActor(Nearest.collider) = ShooterActor
    /\ \E i \in NotIgnoredIdx :
         /\ ray_args.buf[i].position > Nearest.position
         /\ BoxActor(ray_args.buf[i].collider) # ShooterActor
    /\ ray_result.tag = "None"

\* C6: the nearest non-ignored collider is no hit box of any actor =>
\* Some(Hit) with actor = NONE, hit_box = None and who = NONE, whatever the
\* shooter.
C6_EnvironmentHit ==
    (HasNearest /\ BoxActor(Nearest.collider) = NONE)
    => /\ RayReturned
       /\ RayHitValue.actor = NONE
       /\ RayHitValue.hit_box = NoBox
       /\ RayHitValue.who = NONE
       /\ RayHitValue.collider = Nearest.collider

\* C6 witness: an actor shooter hits level geometry.
C6_Witness ==
    /\ HasNearest
    /\ BoxActor(Nearest.collider) = NONE
    /\ ray_args.shooter.tag = "Actor"
    /\ RayReturned
    /\ RayHitValue.who = NONE

(***************************************************************************)
(* Claims about the fire-rate cooldown.                                     *)
(***************************************************************************)
QueriedWeapon == weapons[can_shoot_result.weapon]
QueriedInterval == definition(QueriedWeapon.kind).shoot_interval

\* C7: can_shoot(time) is true iff time.elapsed - last_shot_time >=
\* shoot_interval (boundary included), last_shot_time being the time of the
\* most recent Weapon::shoot call on that weapon.
C7_CanShootIffIntervalElapsed ==
    /\ \A w \in WeaponHandles :
         shot_log[w] # -1 => weapons[w].last_shot_time = shot_log[w]
    /\ (can_shoot_result.asked /\ shot_log[can_shoot_result.weapon] # -1) =>
         (can_shoot_result.value
            <=> elapsed - shot_log[can_shoot_result.weapon] >= QueriedInterval)

\* C7 witness: can_shoot answers true exactly one interval after a shot that
\* was not fired at time 0.
C7_Witness ==
    /\ can_shoot_result.asked
    /\ shot_log[can_shoot_result.weapon] > 0
    /\ elapsed = shot_log[can_shoot_result.weapon] + QueriedInterval
    /\ can_shoot_result.value

\* C8: a weapon that never fired can fire at once (can_shoot true, also at
\* t = 0); after a shot at t0, can_shoot(t) is false for t0 <= t < t0 +
\* interval and true for t >= t0 + interval.
C8_FreshWeaponFiresAtOnce ==
    can_shoot_result.asked =>
        IF shot_log[can_shoot_result.weapon] = -1
        THEN can_shoot_result.value
        ELSE can_shoot_result.value
                <=> elapsed >= shot_log[can_shoot_result.weapon] + QueriedInterval

(***************************************************************************)
(* Claims about the fire request and the grenade toss of Player::update.    *)
(***************************************************************************)
Ammo(p) == p.inventory["Ammo"]
Grenades(p) == p.inventory["Grenade"]

\* The weapon update_shooting looks at in the update just made.
ShotWeapon == weapons[current_weapon(player)]
AmmoPerShot == definition(ShotWeapon.kind).ammo_consumption_per_shot

\* C9: in every Player::update either exactly one ShootWeapon is sent and the
\* Ammo count drops by exactly ammo_consumption_per_shot -- and then the shoot
\* flag was set, the cooldown had elapsed and the inventory held that much
\* ammo -- or no ShootWeapon is sent and the Ammo count is unchanged.
C9_FireAllOrNothing ==
    op = "update" =>
        \/ /\ CountTag(outbox, "ShootWeapon") = 1
           /\ Ammo(player) = Ammo(pre.player) - AmmoPerShot
           /\ pre.player.controller.shoot
           /\ elapsed - ShotWeapon.last_shot_time
                >= definition(ShotWeapon.kind).shoot_interval
           /\ Ammo(pre.player) >= AmmoPerShot
        \/ /\ CountTag(outbox, "ShootWeapon") = 0
           /\ Ammo(player) = Ammo(pre.player)

\* C9 witness: an update fired the M4, taking its 2 rounds out of 3.
C9_Witness ==
    /\ op = "update"
    /\ CountTag(outbox, "ShootWeapon") = 1
    /\ AmmoPerShot = 2
    /\ Ammo(pre.player) = 3
    /\ Ammo(player) = 1

\* C9, second case: shoot held, cooldown elapsed, aim state active, 1 round
\* left for a weapon that needs 2 -- nothing is sent, nothing is taken.
C9_WitnessShortOfAmmo ==
    /\ op = "update"
    /\ ~is_dead(player)
    /\ player.controller.shoot
    /\ upper_active_state = "aim_state"
    /\ elapsed - ShotWeapon.last_shot_time >= definition(ShotWeapon.kind).shoot_interval
    /\ AmmoPerShot = 2
    /\ Ammo(pre.player) = 1
    /\ Ammo(player) = 1
    /\ outbox = <<>>

\* Grenade-release events popped by the update just made.
TossConsumed ==
    CountSignal(pre.events["toss_grenade"], TOSS_GRENADE_SIGNAL)
        - CountSignal(events["toss_grenade"], TOSS_GRENADE_SIGNAL)

\* C10: the grenade-release events of an update take one grenade each while
\* there is one, and send one CreateProjectile(Grenade, Actor(self)) per
\* grenade taken; with none left nothing is sent.  Over a run as many grenade
\* projectiles are sent as grenades removed, and the count is never negative.
C10_GrenadePerSignal ==
    /\ Grenades(player) >= 0
    /\ tally.emitted = tally.removed
    /\ op = "update" =>
        /\ Grenades(player) = Grenades(pre.player) - Min(TossConsumed, Grenades(pre.player))
        /\ CountTag(outbox, "CreateProjectile") = Min(TossConsumed, Grenades(pre.player))
        /\ \A i \in DOMAIN outbox :
             outbox[i].tag = "CreateProjectile" =>
                /\ outbox[i].kind = "Grenade"
                /\ outbox[i].shooter = [tag |-> "Actor", handle |-> PlayerHandle]

\* C10 witness: one grenade, two release events popped in one update, one
\* projectile sent, no grenade left.
C10_Witness ==
    /\ op = "update"
    /\ Grenades(pre.player) = 1
    /\ TossConsumed = 2
    /\ CountTag(outbox, "CreateProjectile") = 1
    /\ Grenades(player) = 0

(***************************************************************************)
(* Claims about the recoil angles.                                          *)
(***************************************************************************)
\* An angle as a signed number of ticks in (-PI, PI], and its magnitude.
Signed(angle) ==
    LET w == wrap_angle(angle) IN IF w > HalfTurn THEN w - AngleTicks ELSE w

Magnitude(angle) == Abs(Signed(angle))

UpdateWithoutShot ==
    /\ op = "update"
    /\ ~is_dead(player)
    /\ CountTag(outbox, "ShootWeapon") = 0

UpdateWithShot ==
    /\ op = "update"
    /\ CountTag(outbox, "ShootWeapon") = 1

\* C11: in an update of a living player that fires no shot, the magnitudes of
\* v_recoil and h_recoil do not increase (they decay toward zero).
C11_RecoilDecays ==
    UpdateWithoutShot =>
        /\ Magnitude(player.v_recoil.angle) <= Magnitude(pre.player.v_recoil.angle)
        /\ Magnitude(player.h_recoil.angle) <= Magnitude(pre.player.h_recoil.angle)

InRange(angle, range) == range[1] <= Signed(angle) /\ Signed(angle) <= range[2]

C13_QueuesEmptyAfterUpdate == op = "update" => events = NoEvents

\* C14: a signal handler that runs again with no event queued in between
\* finds its queue empty, sends nothing, takes nothing from the inventory and
\* leaves the player as it was.
C14_DrainIdempotent ==
    (op \in Clips /\ pre.repeated) =>
        /\ pre.events[op] = <<>>
        /\ events = pre.events
        /\ outbox = <<>>
        /\ player = pre.player

\* C14 witness: the toss-grenade handler ran twice in a row on a player that
\* still holds a grenade.
C14_Witness ==
    /\ op = "toss_grenade"
    /\ pre.repeated
    /\ Grenades(player) > 0

(***************************************************************************)
(* Claims about the stun.                                                   *)
(***************************************************************************)
AllRewound(p) ==
    \A c \in HitReactionClips :
        p.hit_reaction[c].enabled /\ p.hit_reaction[c].position = 0

\* C15: an update that starts with last_health - health >= 15 enables and
\* rewinds every hit-reaction clip of both machines and leaves last_health
\* equal to health; one that starts with a smaller difference touches no clip
\* and leaves last_health as it was.
C15_StunOnDamage ==
    op = "update" =>
        IF pre.player.last_health - pre.player.health >= 15
        THEN /\ AllRewound(player)
             /\ player.last_health = player.health
             /\ player.health = pre.player.health
        ELSE /\ player.hit_reaction = pre.player.hit_reaction
             /\ player.last_health = pre.player.last_health

\* C15 witness: full health 100, 20 damage, then the update: the clips that
\* were disabled are enabled and rewound and last_health is 80.
C15_Witness ==
    /\ op = "update"
    /\ pre.player.last_health = 100
    /\ pre.player.health = 80
    /\ \A c \in HitReactionClips : ~pre.player.hit_reaction[c].enabled
    /\ AllRewound(player)
    /\ player.last_health = 80

\* C15, second stun: clips that had played are rewound again.
C15_WitnessRewound ==
    /\ op = "update"
    /\ \A c \in HitReactionClips : pre.player.hit_reaction[c].position = 1
    /\ AllRewound(player)

\* C15, below the threshold: 5 + 5 damage since the last stun, nothing happens.
C15_WitnessBelow ==
    /\ op = "update"
    /\ pre.player.last_health - pre.player.health = 10
    /\ player.last_health = pre.player.last_health

(***************************************************************************)
(* Claims about the input controller.                                       *)
(***************************************************************************)
AimAngles == {0, 45, -45}
FreeAngles == {0, 45, -45, 90, -90, 135, -135, 180}

NoDirection(c) ==
    ~c.walk_left /\ ~c.walk_right /\ ~c.walk_forward /\ ~c.walk_backward

\* C16: calculate_model_angle depends on the five flags only; aiming with
\* left + backward gives -45, not aiming with left + forward gives 45, no
\* direction gives 0; the value is in {0, 45, -45} when aiming and in {0, 45,
\* -45, 90, -90, 135, -135, 180} when not; walk_left wins over walk_right.
C16_ModelAngleTable ==
    model_angle.computed =>
        LET c == player.controller
            v == model_angle.value
        IN  /\ (c.aim /\ c.walk_left /\ c.walk_backward) => v = -45
            /\ (~c.aim /\ c.walk_left /\ c.walk_forward) => v = 45
            /\ NoDirection(c) => v = 0
            /\ c.aim => v \in AimAngles
            /\ ~c.aim => v \in FreeAngles
            /\ (c.walk_left /\ c.walk_right) =>
                    /\ c.aim => v = (IF c.walk_backward THEN -45 ELSE 45)
                    /\ ~c.aim => v > 0

\* C16 witness: aiming, left, right and backward all held: -45.
C16_Witness ==
    /\ model_angle.computed
    /\ player.controller.aim
    /\ player.controller.walk_left
    /\ player.controller.walk_right
    /\ player.controller.walk_backward
    /\ model_angle.value = -45

\* C17: the pitch stays within [-90, +90] degrees after any input events; a
\* mouse motion subtracts its scaled dx from the yaw with no clamping and
\* clamps the pitch; button events change neither yaw nor pitch.
C17_PitchClamped ==
    /\ -PitchLimit <= player.controller.pitch
    /\ player.controller.pitch <= PitchLimit
    /\ op = "mouse" =>
        LET dir == IF pre.motion.mouse_y_inverse THEN -1 ELSE 1
            sum == pre.player.controller.pitch + dir * pre.motion.dy * MouseSens
        IN  /\ player.controller.yaw = pre.player.controller.yaw - pre.motion.dx * MouseSens
            /\ (-PitchLimit <= sum /\ sum <= PitchLimit) => player.controller.pitch = sum
            /\ sum > PitchLimit => player.controller.pitch = PitchLimit
            /\ sum < -PitchLimit => player.controller.pitch = -PitchLimit
    /\ op = "input" =>
        /\ player.controller.yaw = pre.player.controller.yaw
        /\ player.controller.pitch = pre.player.controller.pitch

\* C17 witness: a motion that would carry the pitch past +90 degrees with
\* mouse_y_inverse set, while the yaw is already beyond 90 degrees.
C17_Witness ==
    /\ op = "mouse"
    /\ pre.motion.mouse_y_inverse
    /\ pre.player.controller.pitch - pre.motion.dy * MouseSens > PitchLimit
    /\ player.controller.pitch = PitchLimit
    /\ Abs(player.controller.yaw) > PitchLimit

(***************************************************************************)
(* Claims about the WeaponContainer.                                        *)
(***************************************************************************)
\* C18: a handle returned by add resolves to its weapon (contains true,
\* try_get the weapon) whatever is added or freed besides; once freed,
\* contains is false and try_get is None for good, also after the slot was
\* given out again.
C18_HandleStable ==
    \A t \in issued :
        IF t.freed
        THEN /\ ~container_contains(container, t.handle)
             /\ container_try_get(container, t.handle) = NONE
        ELSE /\ container_contains(container, t.handle)
             /\ container_try_get(container, t.handle) = t.weapon

\* C18 witness: a freed handle whose slot holds a later weapon, next to a
\* weapon added before the free and still in the container.
C18_Witness ==
    \E stale \in issued, reuse \in issued, old \in issued :
        /\ stale.freed
        /\ ~reuse.freed
        /\ reuse.handle.index = stale.handle.index
        /\ ~old.freed
        /\ old.weapon < stale.weapon

(***************************************************************************)
(* Claims about stale weapon handles.                                       *)
(***************************************************************************)
StaleCurrentWeapon(p) == current_weapon(p) # NONE /\ weapons[current_weapon(p)].free

\* C19: a Player::update of a player whose current weapon handle is non-null
\* but refers to a freed weapon completes (it does not panic).
C19_StaleHandleNotFatal ==
    (op \in {"update", "panic"} /\ StaleCurrentWeapon(pre.player)) => op = "update"

\* C19, second half: ray_hit with Shooter::Weapon(h) for a freed h completes.
C19_RayHitStaleHandleNotFatal ==
    (StaleShooter /\ ray_result # Pending) => ray_result.tag # "Panic"

(***************************************************************************)
(* Claims about the shot trails.                                            *)
(***************************************************************************)
InContainer(n) == \E i \in DOMAIN trails : trails[i].node = n

\* A trail is in the container exactly while the dt accumulated since it was
\* added is below max_lifetime; its node is removed once, on leaving.
TrailRemovedOnTime ==
    \A n \in DOMAIN trail_log :
        IF InContainer(n)
        THEN /\ trail_log[n].age < trail_log[n].max_lifetime
             /\ trail_log[n].removals = 0
        ELSE /\ trail_log[n].age >= trail_log[n].max_lifetime
             /\ trail_log[n].removals = 1

\* C20: a trail leaves the container, and its node is removed exactly once,
\* in the first update at which the accumulated dt reaches max_lifetime and
\* never earlier; with updates of dt > 0 every trail is eventually removed.
C20_TrailRemovedWhenExpired ==
    /\ []TrailRemovedOnTime
    /\ \A n \in 1 .. MaxTrails : InContainer(n) ~> ~InContainer(n)

\* C20 witness: a trail of max_lifetime 3 removed once after two updates,
\* next to a younger trail still in the container.
C20_Witness ==
    \E n \in DOMAIN trail_log, m \in DOMAIN trail_log :
        /\ trail_log[n].max_lifetime = 3
        /\ ~InContainer(n)
        /\ trail_log[n].removals = 1
        /\ trail_log[n].age = 4
        /\ InContainer(m)
        /\ trail_log[m].age > 0

(***************************************************************************)
(* C21.  While a weapon-change request is pending, a new weapon-change      *)
(* input supersedes it: after a button event that asks for a weapon of a    *)
(* player whose weapon_change_direction is not None, weapon_change_direction*)
(* is the request of that event.                                            *)
(***************************************************************************)
\* The request a button event stands for, made of the player p.
AskedFor(p, button, pressed) ==
    CASE button \in GrabButtons /\ held_weapon_kind(p, weapons) \notin {"None", KindOfButton(button)} ->
            [tag |-> "Specific", kind |-> KindOfButton(button)]
      [] button = "next_weapon" /\ pressed /\ p.current_weapon < Len(p.weapons) - 1 ->
            [tag |-> "Next"]
      [] button = "prev_weapon" /\ pressed /\ p.current_weapon > 0 ->
            [tag |-> "Previous"]
      [] OTHER -> [tag |-> "None"]

C21_LastRequestWins ==
    (/\ op = "input"
     /\ pre.input.button \in ChangeButtons
     /\ pre.player.weapon_change_direction # [tag |-> "None"]
     /\ AskedFor(pre.player, pre.input.button, pre.input.pressed) # [tag |-> "None"])
    => player.weapon_change_direction
            = AskedFor(pre.player, pre.input.button, pre.input.pressed)

(***************************************************************************)
(* C22.  An update of a living player that drains at least one jump signal  *)
(* while the lower body machine is in the idle_to_jump or walk_to_jump      *)
(* transition or in the jump state sets the vertical velocity of the body   *)
(* to 3, once, however many signals it drains; every other update leaves    *)
(* the vertical velocity as it was, and a living player's jump queue is     *)
(* empty after the update either way.                                       *)
(***************************************************************************)
JumpSignalsDrained ==
    IF is_dead(pre.player) THEN 0 ELSE CountSignal(pre.events["jump"], JUMP_SIGNAL)

LowerQualifies ==
    \/ frame.lower.transition \in {"idle_to_jump", "walk_to_jump"}
    \/ frame.lower.state = "jump_state"

C22_JumpImpulse ==
    op = "update" =>
        /\ IF JumpSignalsDrained > 0 /\ LowerQualifies
           THEN player.body.lin_vel.y = 3
           ELSE player.body.lin_vel.y = pre.player.body.lin_vel.y
        /\ ~is_dead(pre.player) => events["jump"] = <<>>

\* Two jump signals drained in one update of a falling body, in the jump state.
C22_Witness ==
    /\ op = "update"
    /\ JumpSignalsDrained = 2
    /\ LowerQualifies
    /\ pre.player.body.lin_vel.y = -2
    /\ player.body.lin_vel.y = 3

\* A jump signal drained outside the jump states and transitions.
C22_WitnessNoEffect ==
    /\ op = "update"
    /\ JumpSignalsDrained > 0
    /\ ~LowerQualifies
    /\ player.body.lin_vel.y = -2
    /\ events["jump"] = <<>>

(***************************************************************************)
(* C23.  A run of the grab handler (on its own or inside the update of a    *)
(* living player) that finds at least one GRAB_WEAPON_SIGNAL resolves the   *)
(* pending request into its one equip action, whatever the number of        *)
(* signals: next_weapon for Next, prev_weapon for Previous, one GrabWeapon  *)
(* message with the kind and the player as actor for Specific, nothing for  *)
(* None; weapon_change_direction is None afterwards.  A run that finds no   *)
(* signal changes neither the request nor the weapon and sends no equip     *)
(* message.                                                                 *)
(***************************************************************************)
GrabHandlerRan == op = "grab" \/ (op = "update" /\ ~is_dead(pre.player))

GrabSignalsDrained == CountSignal(pre.events["grab"], GRAB_WEAPON_SIGNAL)

EquipMessages == SelectSeq(outbox, LAMBDA m : m.tag \in {"ShowWeapon", "GrabWeapon"})

Resolved(request) ==
    LET w == pre.player.weapons
        cw == pre.player.current_weapon
    IN  CASE request.tag = "Next" ->
                IF cw < Len(w) - 1
                THEN /\ player.current_weapon = cw + 1
                     /\ EquipMessages = <<[tag |-> "ShowWeapon", weapon |-> w[cw + 2]]>>
                ELSE /\ player.current_weapon = cw
                     /\ EquipMessages = <<>>
          [] request.tag = "Previous" ->
                IF cw > 0
                THEN /\ player.current_weapon = cw - 1
                     /\ EquipMessages = <<[tag |-> "ShowWeapon", weapon |-> w[cw]]>>
                ELSE /\ player.current_weapon = cw
                     /\ EquipMessages = <<>>
          [] request.tag = "Specific" ->
                /\ player.current_weapon = cw
                /\ EquipMessages = <<[tag |-> "GrabWeapon", kind |-> request.kind,
                                      actor |-> PlayerHandle]>>
          [] request.tag = "None" ->
                /\ player.current_weapon = cw
                /\ EquipMessages = <<>>

C23_GrabResolvesOnce ==
    GrabHandlerRan =>
        IF GrabSignalsDrained > 0
        THEN /\ Resolved(pre.player.weapon_change_direction)
             /\ player.weapon_change_direction = [tag |-> "None"]
             /\ events["grab"] = <<>>
        ELSE /\ player.weapon_change_direction = pre.player.weapon_change_direction
             /\ player.current_weapon = pre.player.current_weapon
             /\ EquipMessages = <<>>

\* Two grab signals drained in one update with a Next request pending.
C23_Witness ==
    /\ op = "update"
    /\ GrabSignalsDrained = 2
    /\ pre.player.weapon_change_direction = [tag |-> "Next"]
    /\ pre.player.current_weapon = 0
    /\ player.current_weapon = 1
    /\ Len(EquipMessages) = 1

(***************************************************************************)
(* C24.  Once the toss-grenade clip has begun playing and has not yet       *)
(* reached its grenade-release signal, no button event rewinds, restarts or *)
(* disables it: the clip is after the event as it was before.               *)
(***************************************************************************)
TossInFlight(p) ==
    /\ is_enabled(p.animations["toss_grenade"])
    /\ p.animations["toss_grenade"].position > 0
    /\ p.animations["toss_grenade"].position < SignalFrame

C24_TossNotRestartable ==
    (op = "input" /\ TossInFlight(pre.player))
        => player.animations["toss_grenade"] = pre.player.animations["toss_grenade"]

(***************************************************************************)
(* C25.  An update of a dead player sets the angular velocity of the body   *)
(* to zero and its linear velocity to (0, y, 0) with y as it was, enables   *)
(* the dying clip of both machines, and leaves the velocity derived from    *)
(* the input, the run factor, the rotation of the body and the in-air time  *)
(* as they were.                                                            *)
(***************************************************************************)
DeadUpdate == op = "update" /\ is_dead(pre.player)

C25_DeadPlayerLocked ==
    DeadUpdate =>
        /\ player.body.ang_vel = 0
        /\ player.body.lin_vel = [x |-> 0, y |-> pre.player.body.lin_vel.y, z |-> 0]
        /\ is_enabled(player.animations["lower_dying"])
        /\ is_enabled(player.animations["upper_dying"])
        /\ player.velocity = pre.player.velocity
        /\ player.run_factor = pre.player.run_factor
        /\ player.body.rotation = pre.player.body.rotation
        /\ player.in_air_time = pre.player.in_air_time

\* The first update of a player that died running forward, turned away from
\* where its body points, spinning and falling, off the ground: an update of
\* the living player would have changed each of the four.
C25_Witness ==
    /\ DeadUpdate
    /\ ~is_enabled(pre.player.animations["lower_dying"])
    /\ pre.player.body.ang_vel = 1
    /\ pre.player.body.lin_vel.z > 0
    /\ pre.player.body.lin_vel.y = -2
    /\ pre.player.controller.walk_forward /\ pre.player.controller.run
    /\ pre.player.velocity.z \in 1 .. WalkSpeed
    /\ pre.player.run_factor < RunScale
    /\ pre.player.body.rotation # pre.player.controller.yaw
    /\ ~frame.ground
    /\ player.body.lin_vel = [x |-> 0, y |-> -2, z |-> 0]

(***************************************************************************)
(* C26.  An update sets the rotation of the body to the yaw of the          *)
(* controller when the player is alive, the lower body machine is neither   *)
(* in its fall state nor in its land state, and the player walks or aims;   *)
(* every other update, and so every update of a player that neither walks   *)
(* nor aims, leaves the rotation of the body as it was.                     *)
(***************************************************************************)
WalksOrAims(c) ==
    c.walk_forward \/ c.walk_backward \/ c.walk_left \/ c.walk_right \/ c.aim

C26_BodyFollowsYaw ==
    op = "update" =>
        IF /\ ~is_dead(pre.player)
           /\ frame.lower.state \notin {"fall_state", "land_state"}
           /\ WalksOrAims(pre.player.controller)
        THEN player.body.rotation = pre.player.controller.yaw
        ELSE player.body.rotation = pre.player.body.rotation

\* The yaw has moved away from the rotation of the body, the player stands
\* still without aiming, and the update keeps the rotation.
C26_Witness ==
    /\ op = "update"
    /\ ~is_dead(pre.player)
    /\ frame.lower = Standing
    /\ ~WalksOrAims(pre.player.controller)
    /\ pre.player.controller.yaw # pre.player.body.rotation
    /\ player.body.rotation = pre.player.body.rotation
    /\ player.body.rotation # 0

\* The update turns the body of a walking player to the yaw.
C26_WitnessTurned ==
    /\ op = "update"
    /\ pre.player.controller.walk_forward /\ ~pre.player.controller.aim
    /\ pre.player.controller.yaw # pre.player.body.rotation
    /\ player.body.rotation = pre.player.controller.yaw

\* The update of an aiming player in the fall state keeps the rotation.
C26_WitnessFalling ==
    /\ op = "update"
    /\ ~is_dead(pre.player)
    /\ pre.player.controller.aim
    /\ frame.lower.state = "fall_state"
    /\ pre.player.controller.yaw # pre.player.body.rotation
    /\ player.body.rotation = pre.player.body.rotation

(***************************************************************************)
(* C27.  Picking up an item takes a press of the action button: between two *)
(* presses at most one PickUpItem message is sent, however many updates the *)
(* button is held for, because the pickup clears the action flag.  An       *)
(* update shows and picks at most one item, which is closer than the        *)
(* interaction range, and sends ShowItemDisplay, then PickUpItem, then      *)
(* SyncInventory for it.                                                    *)
(***************************************************************************)
ItemMessages ==
    SelectSeq(outbox, LAMBDA m : m.tag \in {"ShowItemDisplay", "PickUpItem", "SyncInventory"})

ShowItem(i) ==
    [tag |-> "ShowItemDisplay", item |-> level.items[i].kind,
     count |-> level.items[i].stack_size]

C27_PickUpOncePerPress ==
    /\ tally.picked <= 1
    /\ op = "update" =>
          \/ ItemMessages = <<>>
          \/ \E i \in DOMAIN level.items :
                /\ level.items[i].distance < InteractRange
                /\ player.item_display = [visible |-> TRUE, item |-> i]
                /\ ~player.controller.action
                /\ IF pre.player.controller.action
                   THEN ItemMessages = <<ShowItem(i),
                                         [tag |-> "PickUpItem", actor |-> PlayerHandle,
                                          item |-> i],
                                         [tag |-> "SyncInventory"]>>
                   ELSE ItemMessages = <<ShowItem(i)>>

\* Both items are in range and the button is down: the update picks the
\* first one up.
C27_Witness ==
    /\ op = "update"
    /\ pre.player.controller.action
    /\ \A i \in DOMAIN level.items : level.items[i].distance < InteractRange
    /\ CountTag(outbox, "PickUpItem") = 1
    /\ tally.picked = 1

\* An update after the pickup, with no press in between and an item in
\* range, shows the item and picks nothing up.
C27_WitnessHeld ==
    /\ op = "update"
    /\ tally.picked = 1
    /\ ~pre.player.controller.action
    /\ CountTag(outbox, "ShowItemDisplay") = 1
    /\ CountTag(outbox, "PickUpItem") = 0

\* The button is down and the only item at the edge of the range is not
\* picked up.
C27_WitnessOutOfRange ==
    /\ op = "update"
    /\ pre.player.controller.action
    /\ ~is_dead(pre.player)
    /\ \A i \in DOMAIN level.items : level.items[i].distance = InteractRange
    /\ ItemMessages = <<>>
    /\ player.controller.action

(***************************************************************************)
(* C28.  Calling an elevator takes a press of the action button: between    *)
(* two presses, while the player stays where it is, at most one             *)
(* CallElevator message is sent for the elevator it stands in and at most   *)
(* one for the call button it stands at.                                    *)
(***************************************************************************)
C28_CallOncePerPress == tally.called <= 1 /\ tally.pushed <= 1

(***************************************************************************)
(* C29.  Every call of Weapon::shoot sets last_shot_time to the elapsed     *)
(* time and sends exactly one message that is a CreateProjectile or a       *)
(* ShootRay: a CreateProjectile iff the definition of the weapon has a      *)
(* projectile, a ShootRay iff it has a ray.  The shooter of the message is  *)
(* the weapon itself, and a ray ends 1000 units of length from where it     *)
(* begins, in the direction of the shot (along z if that direction is       *)
(* zero).                                                                   *)
(***************************************************************************)
ShotMessages == SelectSeq(outbox, LAMBDA m : m.tag \in {"CreateProjectile", "ShootRay"})

\* d is the vector of length 1000 along v.
cross(a, b) ==
    Vector3(a.y * b.z - a.z * b.y, a.z * b.x - a.x * b.z, a.x * b.y - a.y * b.x)

IsRayAlong(d, v) ==
    /\ dot(d, d) = (Unit * RayLength) * (Unit * RayLength)
    /\ cross(d, v) = Vector3(0, 0, 0)
    /\ dot(d, v) > 0

AimOf(shot) ==
    LET v == IF shot.direction.some THEN shot.direction.value ELSE shot.scene.model.look
    IN  IF v = Vector3(0, 0, 0) THEN Vector3(0, 0, Unit) ELSE v

C29_ShootSendsOneShot ==
    op = "shoot" =>
        LET w == pre.shot.weapon
            m == ShotMessages[1]
        IN  /\ weapons[w].last_shot_time = elapsed
            /\ Len(ShotMessages) = 1
            /\ m.tag = (IF definition(weapons[w].kind).projectile.tag = "Projectile"
                        THEN "CreateProjectile" ELSE "ShootRay")
            /\ m.shooter = [tag |-> "Weapon", handle |-> w]
            /\ m.tag = "ShootRay" =>
                  /\ m.begin = shot_position(pre.shot.scene)
                  /\ IsRayAlong(Vector3(m.end.x - m.begin.x, m.end.y - m.begin.y,
                                        m.end.z - m.begin.z), AimOf(pre.shot))

\* A ray weapon with a shot point shoots late into the game in a direction
\* across two axes that is longer than one.
C29_Witness ==
    /\ op = "shoot"
    /\ elapsed > 0
    /\ pre.shot.scene.shot_point.some
    /\ pre.shot.direction = [some |-> TRUE, value |-> Vector3(30, 40, 0)]
    /\ CountTag(outbox, "ShootRay") = 1
    /\ outbox[Len(outbox)].end = Vector3(6010, 8020, -30)

\* A projectile weapon shoots.
C29_WitnessProjectile ==
    /\ op = "shoot"
    /\ elapsed > 0
    /\ CountTag(outbox, "CreateProjectile") = 1
    /\ CountTag(outbox, "ShootRay") = 0

\* A ray weapon shoots in the direction zero, and along the look vector of
\* its model when no direction is given.
C29_WitnessZero ==
    /\ op = "shoot"
    /\ pre.shot.direction = [some |-> TRUE, value |-> Vector3(0, 0, 0)]
    /\ CountTag(outbox, "ShootRay") = 1
    /\ outbox[Len(outbox)].end = add(outbox[Len(outbox)].begin, Vector3(0, 0, 10000))

C29_WitnessLook ==
    /\ op = "shoot"
    /\ pre.shot.direction = LookAhead
    /\ pre.shot.scene.model.look = Vector3(-20, 0, 0)
    /\ CountTag(outbox, "ShootRay") = 1
    /\ outbox[Len(outbox)].end = add(outbox[Len(outbox)].begin, Vector3(-10000, 0, 0))

(***************************************************************************)
(* C30.  Every update hands the lower body machine and the upper body       *)
(* machine the same is_dead, the same weapon_kind and the same              *)
(* should_be_stunned.                                                       *)
(***************************************************************************)
C30_MachinesShareInputs ==
    frame.machines.fed =>
        /\ frame.machines.lower.is_dead = frame.machines.upper.is_dead
        /\ frame.machines.lower.weapon_kind = frame.machines.upper.weapon_kind
        /\ frame.machines.lower.should_be_stunned = frame.machines.upper.should_be_stunned

(***************************************************************************)
(* C31.  An update of a living player rewinds the landing clips of both     *)
(* machines if it is the first update without ground contact after one      *)
(* with ground contact, and leaves them as they are otherwise: in a later   *)
(* update of the same flight and in an update with ground contact.          *)
(***************************************************************************)
LandPositions(p) == [c \in LandClips |-> p.animations[c].position]

C31_LandClipsRewoundOnEdge ==
    (op = "update" /\ ~is_dead(pre.player)) =>
        IF pre.player.in_air_time = 0 /\ ~frame.ground
        THEN LandPositions(player) = [c \in LandClips |-> 0]
        ELSE LandPositions(player) = LandPositions(pre.player)

(***************************************************************************)
(* C32.  The aim state of the upper body machine gates fire and the         *)
(* display of the weapon: an update sends ShootWeapon and takes ammo only   *)
(* if that state is active, and after an update of a player that holds a    *)
(* weapon the laser sight of that weapon and the weapon display are         *)
(* visible iff that state is active, whatever the aim flag says.            *)
(***************************************************************************)
HeldWeapon(p) == p.weapons[p.current_weapon + 1]

FiresOnlyAiming ==
    (CountTag(outbox, "ShootWeapon") > 0 \/ player.inventory # pre.player.inventory)
        => upper_active_state = "aim_state"

ShownIffAiming ==
    /\ player.weapon_display.visible = (upper_active_state = "aim_state")
    /\ player.laser_sight[HeldWeapon(player)] = (upper_active_state = "aim_state")

C32_WitnessHidden ==
    /\ op = "update"
    /\ ~is_dead(pre.player)
    /\ upper_active_state # "aim_state"
    /\ pre.player.controller.aim /\ pre.player.controller.shoot
    /\ can_shoot(weapons[HeldWeapon(player)], elapsed)
    /\ pre.player.weapon_display.visible
    /\ ~player.weapon_display.visible /\ ~player.laser_sight[HeldWeapon(player)]
    /\ outbox = <<>>
    /\ player.inventory = pre.player.inventory

(***************************************************************************)
(* C33.  Every trail the container holds has 0 <= lifetime < max_lifetime,  *)
(* and no update steps a lifetime beyond max_lifetime.  A trail ages alone: *)
(* its lifetime is the dt of the updates it has been through, whatever      *)
(* other trails the container holds, an update treats it as it would treat  *)
(* it in a container of its own, and the trails kept stay in the order in   *)
(* which they were added.                                                   *)
(***************************************************************************)
TrailsOf(cont, node) == SelectSeq(cont, LAMBDA t : t.node = node)

C33_TrailsAgeAlone ==
    /\ \A i \in DOMAIN trails :
          /\ 0 <= trails[i].lifetime
          /\ trails[i].lifetime < trails[i].max_lifetime
          /\ trails[i].lifetime = trail_log[trails[i].node].age
          /\ trails[i].max_lifetime = trail_log[trails[i].node].max_lifetime
    /\ \A i, j \in DOMAIN trails : i < j => trails[i].node < trails[j].node
    /\ \A dt \in 0 .. MaxDt, i \in DOMAIN trails :
          /\ trail_step(trails[i], dt).lifetime <= trails[i].max_lifetime
          /\ TrailsOf(trails_update(trails, dt).container, trails[i].node)
               = trails_update(<<trails[i]>>, dt).container
          /\ TrailsOf(trails_update(trails, dt).removed, trails[i].node)
               = trails_update(<<trails[i]>>, dt).removed

\* An update has removed the second of three trails and kept the first and
\* the third, which have different lifetimes.
C33_Witness ==
    /\ op = "trail_update"
    /\ Len(trails) = 2
    /\ trails[1].node = 1 /\ trails[1].lifetime = 2
    /\ trails[2].node = 3 /\ trails[2].lifetime = 1
    /\ trail_log[2].removals = 1

(***************************************************************************)
(* C34.  Once the toss-grenade button has been released the toss_grenade    *)
(* flag of the controller is false, also when the last grenade has left     *)
(* the inventory between the press and the release.                         *)
(***************************************************************************)
TossReleased ==
    op = "input" /\ pre.input = [button |-> "toss_grenade", pressed |-> FALSE]

C34_TossFlagFollowsButton == TossReleased => ~player.controller.toss_grenade

(***************************************************************************)
(* C35.  weapon_change_direction goes from None to a request only by a      *)
(* Pressed event of a weapon-change button: no Released event and no other  *)
(* operation creates a request.                                             *)
(***************************************************************************)
RequestCreated ==
    /\ pre.player.weapon_change_direction = [tag |-> "None"]
    /\ player.weapon_change_direction # [tag |-> "None"]

C35_RequestOnlyOnPress ==
    RequestCreated =>
        /\ op = "input"
        /\ pre.input.button \in ChangeButtons
        /\ pre.input.pressed

(***************************************************************************)
(* C36.  An event of a weapon-change button is accepted, that is, sets      *)
(* weapon_change_direction, only if no request is pending, the grab clip    *)
(* has ended and the player holds more than one weapon; Next if moreover    *)
(* current_weapon < weapons.len() - 1, Previous if current_weapon > 0, and  *)
(* Specific(kind) if there is a current weapon of another kind.  Accepting  *)
(* rewinds the put-back clip and disables and rewinds the grab clip; an     *)
(* event that is not accepted leaves the request and the clips alone.       *)
(***************************************************************************)
ChangeEvent == op = "input" /\ pre.input.button \in ChangeButtons

Accepted == ChangeEvent /\ player.weapon_change_direction # pre.player.weapon_change_direction

FitsTheHand(request, p) ==
    CASE request.tag = "Next" -> p.current_weapon < Len(p.weapons) - 1
      [] request.tag = "Previous" -> p.current_weapon > 0
      [] request.tag = "Specific" ->
            /\ p.current_weapon < Len(p.weapons)
            /\ weapons[p.weapons[p.current_weapon + 1]].kind # request.kind
      [] OTHER -> FALSE

C36_AcceptedOnlyWhenFree ==
    ChangeEvent =>
        IF Accepted
        THEN /\ pre.player.weapon_change_direction = [tag |-> "None"]
             /\ has_ended(pre.player.animations["grab"])
             /\ Len(pre.player.weapons) > 1
             /\ FitsTheHand(player.weapon_change_direction, pre.player)
             /\ player.animations["put_back"] =
                    [pre.player.animations["put_back"] EXCEPT !.position = 0]
             /\ player.animations["grab"] = [enabled |-> FALSE, position |-> 0]
        ELSE player = pre.player

\* A request for the next weapon is accepted; both clips stood at their end
\* and the put-back clip is rewound.
C36_Witness ==
    /\ Accepted
    /\ player.weapon_change_direction = [tag |-> "Next"]
    /\ pre.player.animations["put_back"].position = ClipLength
    /\ pre.player.animations["grab"] = [enabled |-> TRUE, position |-> ClipLength]
    /\ player.animations["put_back"].position = 0

\* A press of next_weapon is turned down because the grab clip still plays.
C36_WitnessGrabbing ==
    /\ ChangeEvent /\ ~Accepted
    /\ pre.input = [button |-> "next_weapon", pressed |-> TRUE]
    /\ pre.player.weapon_change_direction = [tag |-> "None"]
    /\ pre.player.current_weapon = 0 /\ Len(pre.player.weapons) = 2
    /\ ~has_ended(pre.player.animations["grab"])

\* A press of grab_m4 is turned down because the player holds one weapon.
C36_WitnessOneWeapon ==
    /\ ChangeEvent /\ ~Accepted
    /\ pre.input = [button |-> "grab_m4", pressed |-> TRUE]
    /\ Len(pre.player.weapons) = 1 /\ pre.player.current_weapon = 0

\* A press of grab_pistol is turned down because the pistol is in the hand.
C36_WitnessSameKind ==
    /\ ChangeEvent /\ ~Accepted
    /\ pre.input = [button |-> "grab_pistol", pressed |-> TRUE]
    /\ can_change_weapon(pre.player)
    /\ pre.player.current_weapon = 0

(***************************************************************************)
(* C37.  Starting with both displays hidden and the aim button up, after    *)
(* any sequence of button events the inventory display and the journal      *)
(* display are not both visible and neither is visible while the aim flag   *)
(* is set; an event sends SyncInventory iff it turns the inventory display  *)
(* from hidden to visible, and SyncJournal iff it turns the journal display *)
(* from hidden to visible.                                                  *)
(***************************************************************************)
TurnedOn(display) == ~pre.player[display].visible /\ player[display].visible

C37_DisplaysExclusive ==
    /\ ~(player.inventory_display.visible /\ player.journal_display.visible)
    /\ player.controller.aim =>
          ~player.inventory_display.visible /\ ~player.journal_display.visible
    /\ op = "input" =>
          /\ CountTag(outbox, "SyncInventory")
                = (IF TurnedOn("inventory_display") THEN 1 ELSE 0)
          /\ CountTag(outbox, "SyncJournal")
                = (IF TurnedOn("journal_display") THEN 1 ELSE 0)

\* The journal button is pressed while the inventory is shown: the journal
\* takes its place.
C37_Witness ==
    /\ op = "input"
    /\ pre.input = [button |-> "journal", pressed |-> TRUE]
    /\ pre.player.inventory_display.visible
    /\ player.journal_display.visible /\ ~player.inventory_display.visible
    /\ outbox = <<[tag |-> "SyncJournal"]>>

\* The aim button is pressed while the inventory is shown and hides it.
C37_WitnessAim ==
    /\ op = "input"
    /\ pre.input = [button |-> "aim", pressed |-> TRUE]
    /\ pre.player.inventory_display.visible
    /\ ~player.inventory_display.visible
    /\ outbox = <<>>

\* The inventory button is pressed while aiming, and once more to hide the
\* inventory: neither sends a message.
C37_WitnessAiming ==
    /\ op = "input"
    /\ pre.input = [button |-> "inventory", pressed |-> TRUE]
    /\ pre.player.controller.aim
    /\ player = pre.player
    /\ outbox = <<>>

C37_WitnessHide ==
    /\ op = "input"
    /\ pre.input = [button |-> "inventory", pressed |-> TRUE]
    /\ pre.player.inventory_display.visible
    /\ ~player.inventory_display.visible
    /\ outbox = <<>>

(***************************************************************************)
(* C38.  When every ShootWeapon message is handed to Weapon::shoot before   *)
(* the next update of the player, two successive ShootWeapon messages for   *)
(* one weapon are at least the shoot_interval of that weapon apart, and the *)
(* ammo taken from the inventory is ammo_consumption_per_shot for each      *)
(* ShootWeapon message sent.                                                *)
(***************************************************************************)
C38_VolleyPaced ==
    tally.volley.on =>
        /\ \A w \in WeaponHandles :
              tally.volley.prev[w] >= 0 =>
                  tally.volley.last[w] - tally.volley.prev[w]
                      >= definition(weapons[w].kind).shoot_interval
        /\ tally.volley.spent = tally.volley.due

\* The pistol has been asked to shoot twice, the second time as soon as its
\* interval had passed, and two rounds are gone.
C38_Witness ==
    /\ tally.volley.on
    /\ op = "update"
    /\ AskedToShoot(outbox, 1)
    /\ tally.volley.prev[1] >= 0
    /\ tally.volley.last[1] = elapsed
    /\ tally.volley.last[1] - tally.volley.prev[1] = definition("Glock").shoot_interval
    /\ tally.volley.spent = 2
    /\ Ammo(player) = MaxAmmo - 2

\* The rifle has been asked to shoot and its two rounds are gone.
C38_WitnessRifle ==
    /\ tally.volley.on
    /\ tally.volley.last[2] >= 0
    /\ tally.volley.spent = 2
    /\ Ammo(player) = MaxAmmo - 2

(***************************************************************************)
(* C39.  An update of a dead player sends none of ShootWeapon,              *)
(* CreateProjectile, GrabWeapon, PickUpItem, SyncInventory,                 *)
(* ShowItemDisplay, CallElevator and SetCallButtonFloor, and leaves the     *)
(* inventory and the requested weapon change as they were, whatever the    *)
(* buttons and the queues of signals hold.                                  *)
(***************************************************************************)
ControllerMessages ==
    {"ShootWeapon", "CreateProjectile", "GrabWeapon", "PickUpItem", "SyncInventory",
     "ShowItemDisplay", "CallElevator", "SetCallButtonFloor"}

Lifeless(p) == p.health <= 0

C39_DeadPlayerSilent ==
    op = "update" /\ Lifeless(pre.player) =>
        /\ \A i \in DOMAIN outbox : outbox[i].tag \notin ControllerMessages
        /\ player.inventory = pre.player.inventory
        /\ player.weapon_change_direction = pre.player.weapon_change_direction

\* A dead player is updated in the aim state with the shoot and action
\* buttons down, a weapon ready to shoot and ammo for a shot, an item, an
\* elevator and a call button within reach, a weapon change requested and
\* the grab and toss signals queued.
C39_Witness ==
    /\ op = "update"
    /\ Lifeless(pre.player)
    /\ level.items[1].distance < InteractRange
    /\ pre.player.controller.shoot
    /\ pre.player.controller.action
    /\ upper_active_state = "aim_state"
    /\ Ammo(pre.player) >= definition("Glock").ammo_consumption_per_shot
    /\ pre.player.inventory["Grenade"] > 0
    /\ pre.player.weapon_change_direction.tag = "Specific"
    /\ can_shoot(weapons[1], elapsed)
    /\ pre.events["grab"] # <<>>
    /\ pre.events["toss_grenade"] # <<>>
    /\ events = pre.events
    /\ outbox = <<>>

\* The same buttons and queues make a living player send messages.
C39_WitnessAlive ==
    /\ op = "update"
    /\ ~Lifeless(pre.player)
    /\ CountTag(outbox, "ShootWeapon") > 0
    /\ CountTag(outbox, "GrabWeapon") > 0
    /\ CountTag(outbox, "CreateProjectile") > 0
    /\ CountTag(outbox, "PickUpItem") > 0
    /\ CountTag(outbox, "SyncInventory") > 0
    /\ CountTag(outbox, "ShowItemDisplay") > 0

\* A living player calls the elevator and sets the floor of its call button.
C39_WitnessElevator ==
    /\ op = "update"
    /\ ~Lifeless(pre.player)
    /\ CountTag(outbox, "CallElevator") > 0

(***************************************************************************)
(* C40.  An update stuns the player (should_be_stunned holds and the        *)
(* hit-reaction clips are rewound) only if the health dropped by at least   *)
(* 15 between the previous update, or the creation of the player, and this  *)
(* update.                                                                  *)
(***************************************************************************)
StunnedNow == op = "update" /\ should_be_stunned(pre.player) /\ AllRewound(player)

C40_StunOnlyOnDrop ==
    tally.seen.on /\ StunnedNow => tally.seen.before - tally.seen.now >= 15

\* Three losses of 5, each seen by an update of its own, stun the player in
\* the third.
C40_SmallLossesStun ==
    ~(/\ tally.seen.on
      /\ StunnedNow
      /\ pre.player.last_health = IdlePlayer.health
      /\ player.health = IdlePlayer.health - 15
      /\ tally.seen.before - tally.seen.now = 5)

\* A player created with the health 80 of its persistent data is stunned by
\* its first update, although it lost no health.
C40_RestoredHealthStuns ==
    ~(/\ tally.seen.on
      /\ StunnedNow
      /\ tally.seen.before = tally.seen.now
      /\ tally.seen.now = IdlePlayer.health - 20)

====
